---- MODULE Spec2Model ----
(***************************************************************************)
(* dotdipper: manifest-based file synchronisation.                         *)
(*                                                                         *)
(* The model covers the apply engine (src/repo/apply.rs), the diff engine  *)
(* (src/diff/mod.rs) and the manifest operations (src/hash/mod.rs) over an *)
(* abstract filesystem: a map from normalised absolute paths to nodes.     *)
(***************************************************************************)
EXTENDS Integers, Sequences, FiniteSets, TLC

(***************************************************************************)
(* Bounds of the model.                                                    *)
(***************************************************************************)
\* largest number of entries of a manifest handed to apply
MaxEntries == 2
\* number of apply passes one behaviour runs
MaxPasses == 2

(***************************************************************************)
(* Option<T>                                                               *)
(***************************************************************************)
None == <<>>
Some(x) == <<x>>

(***************************************************************************)
(* Paths (std::path).  A path is a sequence of components; a component is  *)
(* RootDir, ParentDir or a normal file name.  A file name is the sequence  *)
(* of its dot-separated parts: "a.age" is <<"a", "age">>, ".tmp1" is       *)
(* <<"", "tmp1">>.                                                         *)
(***************************************************************************)
RootDir == <<"/">>
ParentDir == <<"..">>
\* a leading "." (Component::CurDir); "." anywhere else is dropped in parsing
CurDir == <<".">>

IsNormal(c) == c # RootDir /\ c # ParentDir /\ c # CurDir

IsAbsolute(p) == Len(p) > 0 /\ p[1] = RootDir

\* Path::join: an absolute argument replaces the base
Join(base, p) == IF IsAbsolute(p) THEN p ELSE base \o p

\* Path::starts_with: whole components, no normalisation of ".."
StartsWith(p, base) ==
    /\ Len(base) <= Len(p)
    /\ SubSeq(p, 1, Len(base)) = base

\* Path::file_name: None when the path ends in ".." or is the root
FileName(p) ==
    IF Len(p) > 0 /\ IsNormal(p[Len(p)]) THEN Some(p[Len(p)]) ELSE None

\* the name has a dot that is not its first character
HasExtension(n) == Len(n) >= 2 /\ ~(Len(n) = 2 /\ n[1] = "")

\* Path::extension: the part after the last dot of the file name
Extension(p) ==
    IF FileName(p) = None THEN None
    ELSE LET n == FileName(p)[1]
         IN  IF HasExtension(n) THEN Some(n[Len(n)]) ELSE None

\* Path::file_stem: the file name without its extension
FileStem(p) ==
    IF FileName(p) = None THEN None
    ELSE LET n == FileName(p)[1]
         IN  IF HasExtension(n) THEN Some(SubSeq(n, 1, Len(n) - 1)) ELSE Some(n)

\* PathBuf::set_file_name: replaces the last normal component
SetFileName(p, n) ==
    IF FileName(p) = None THEN Append(p, n)
    ELSE Append(SubSeq(p, 1, Len(p) - 1), n)

\* Path::parent
Parent(p) == IF Len(p) <= 1 THEN None ELSE Some(SubSeq(p, 1, Len(p) - 1))

RECURSIVE JoinStr(_, _)
JoinStr(parts, sep) ==
    IF Len(parts) = 0 THEN ""
    ELSE IF Len(parts) = 1 THEN parts[1]
    ELSE parts[1] \o sep \o JoinStr(Tail(parts), sep)

\* the text of one component
CompStr(c) == IF IsNormal(c) THEN JoinStr(c, ".") ELSE c[1]

\* Path::display
Display(p) ==
    IF IsAbsolute(p)
    THEN "/" \o JoinStr([i \in 1..(Len(p) - 1) |-> CompStr(p[i + 1])], "/")
    ELSE JoinStr([i \in 1..Len(p) |-> CompStr(p[i])], "/")

\* the pieces of the text s between the separators, read from position i on;
\* cur is the piece being read
RECURSIVE SplitAt(_, _, _, _)
SplitAt(s, sep, i, cur) ==
    IF i > Len(s) THEN <<cur>>
    ELSE IF SubSeq(s, i, i) = sep THEN <<cur>> \o SplitAt(s, sep, i + 1, "")
    ELSE SplitAt(s, sep, i + 1, cur \o SubSeq(s, i, i))

Split(s, sep) == SplitAt(s, sep, 1, "")

\* the component a piece of a path text stands for
PieceComp(piece) == IF piece = ".." THEN ParentDir ELSE Split(piece, ".")

\* PathBuf::from(text) seen through Path::components: the root for a leading
\* "/", a leading "." kept, empty pieces and other "." pieces dropped
PathBuf_from(s) ==
    LET pieces == Split(s, "/")
        kept == SelectSeq(pieces, LAMBDA x : x # "" /\ x # ".")
        body == [i \in 1..Len(kept) |-> PieceComp(kept[i])]
    IN  IF Len(s) > 0 /\ SubSeq(s, 1, 1) = "/" THEN <<RootDir>> \o body
        ELSE IF Len(pieces) > 0 /\ pieces[1] = "." THEN <<CurDir>> \o body
        ELSE body

\* what the kernel does with "..": one component up, the root is its own parent
RECURSIVE Normalize(_)
Normalize(p) ==
    IF \A i \in 1..Len(p) : p[i] # ParentDir THEN p
    ELSE LET front == Normalize(SubSeq(p, 1, Len(p) - 1))
             last == p[Len(p)]
         IN  IF last = ParentDir
             THEN IF Len(front) <= 1 THEN front ELSE SubSeq(front, 1, Len(front) - 1)
             ELSE Append(front, last)

(***************************************************************************)
(* The fixed places of one installation.                                   *)
(***************************************************************************)
\* dirs::home_dir()
HomeDir == <<RootDir, <<"home">>>>
\* ~/.dotdipper/compiled
CompiledRoot == HomeDir \o << <<"", "dotdipper">>, <<"compiled">> >>
\* std::env::temp_dir()
TempDir == <<RootDir, <<"tmp">>>>
\* the name tempfile gives the n-th temporary file
TempPath(n) == Append(TempDir, <<"", "tmp" \o ToString(n)>>)

(***************************************************************************)
(* The filesystem: a function from the normalised absolute paths that      *)
(* exist to their nodes.  A node is a regular file with its bytes, a       *)
(* directory with its tree, or a symbolic link with its literal value.     *)
(***************************************************************************)
Absent == [kind |-> "absent", content |-> <<>>, link |-> <<>>]
File(c) == [kind |-> "file", content |-> c, link |-> <<>>]
Dir(c) == [kind |-> "dir", content |-> c, link |-> <<>>]
Link(p) == [kind |-> "symlink", content |-> <<>>, link |-> p]

NodeAt(f, loc) == IF loc \in DOMAIN f THEN f[loc] ELSE Absent

Put(f, loc, node) == [l \in DOMAIN f \cup {loc} |-> IF l = loc THEN node ELSE f[l]]

Unlink(f, loc) == [l \in DOMAIN f \ {loc} |-> f[l]]

\* lstat: the node at the path itself
LStat(f, p) == NodeAt(f, Normalize(p))

\* stat: the node after following symbolic links; a dangling link or a loop
\* of links gives no node
RECURSIVE Follow(_, _, _)
Follow(f, p, fuel) ==
    LET loc == Normalize(p)
        n == NodeAt(f, loc)
    IN  IF n.kind # "symlink" THEN n
        ELSE IF fuel = 0 THEN Absent
        ELSE Follow(f, Join(SubSeq(loc, 1, Len(loc) - 1), n.link), fuel - 1)

Stat(f, p) == Follow(f, p, Cardinality(DOMAIN f))

\* Path::exists, is_file, is_dir follow links; is_symlink does not
exists(f, p) == Stat(f, p).kind # "absent"
is_file(f, p) == Stat(f, p).kind = "file"
is_dir(f, p) == Stat(f, p).kind = "dir"
is_symlink(f, p) == LStat(f, p).kind = "symlink"
read_link(f, p) == LStat(f, p).link

(***************************************************************************)
(* Fingerprints (src/hash/mod.rs).                                         *)
(***************************************************************************)
\* blake3 of a byte stream: one digest per content
Blake3(c) == <<"blake3">> \o c

\* hash_file: opens and reads the file behind the path; a directory, a
\* missing file or an unreadable file is an error
hash_file(f, p, unreadable) ==
    IF is_file(f, p) /\ ~unreadable
    THEN [ok |-> TRUE, hash |-> Blake3(Stat(f, p).content)]
    ELSE [ok |-> FALSE, hash |-> <<>>]

FileHash(p, h, sz, md, mt) ==
    [path |-> p, hash |-> h, size |-> sz, mode |-> md, modified |-> mt]

(***************************************************************************)
(* Encryption collaborator (src/secrets/mod.rs): an encrypted file holds   *)
(* <<"age">> \o plaintext; decryption needs the file and the identity.     *)
(***************************************************************************)
Encrypt(c) == <<"age">> \o c

decrypt_to_memory(f, p, keyOk) ==
    LET n == Stat(f, p)
    IN  IF keyOk /\ n.kind = "file" /\ Len(n.content) > 0 /\ n.content[1] = "age"
        THEN [ok |-> TRUE, bytes |-> Tail(n.content)]
        ELSE [ok |-> FALSE, bytes |-> <<>>]

(***************************************************************************)
(* Apply engine (src/repo/apply.rs).                                       *)
(*                                                                         *)
(* The operators thread a world w = [fs, log, now]: the filesystem, what   *)
(* the entry has done so far (its mutations, its calls of the decryption   *)
(* collaborator and of the prompt, in order) and the clock.  An operation  *)
(* the environment can refuse takes the fault injected into this entry; it *)
(* fails when the fault names it.                                          *)
(***************************************************************************)
Faults == {"none", "temp", "hash", "backup", "remove", "mkdir", "link", "copy", "perm", "mtime"}

AppliedAction(m, t, s, b, r) ==
    [mode |-> m, target |-> t, source |-> s, backup_created |-> b, skipped_reason |-> r]

Skipped(t, s, reason) == AppliedAction("Skipped", t, s, FALSE, Some(reason))

\* the mode an outcome reports for a restore mode
AppliedModeOf(mode) == IF mode = "Symlink" THEN "Symlinked" ELSE "Copied"

Ok(w, a) == [fs |-> w.fs, log |-> w.log, now |-> w.now, ok |-> TRUE, action |-> a]
Err(w) == [fs |-> w.fs, log |-> w.log, now |-> w.now, ok |-> FALSE,
           action |-> AppliedAction("Error", <<>>, <<>>, FALSE, None)]

Event(op, p, ok) == [op |-> op, path |-> Normalize(p), ok |-> ok]

\* a mutation of the filesystem
Mutate(w, f, op, p) == [fs |-> f, log |-> Append(w.log, Event(op, p, TRUE)), now |-> w.now]

\* a call that changes nothing: decrypt_to_memory, ui::prompt_confirm
Note(w, op, p, ok) == [fs |-> w.fs, log |-> Append(w.log, Event(op, p, ok)), now |-> w.now]

\* format!("{}.bak.{}", path.display(), timestamp): the text is appended to
\* the last component
BackupPath(p, ts) == SetFileName(p, p[Len(p)] \o <<"bak", ToString(ts)>>)

is_already_applied(f, source, target, mode, fault) ==
    IF ~exists(f, target) /\ ~is_symlink(f, target) THEN "false"
    ELSE IF mode = "Symlink"
    THEN IF is_symlink(f, target)
         THEN (IF read_link(f, target) = source THEN "true" ELSE "false")
         ELSE "false"
    ELSE IF is_file(f, source) /\ is_file(f, target)
         THEN LET source_hash == hash_file(f, source, fault = "hash")
                  target_hash == hash_file(f, target, fault = "hash")
              IN  IF ~source_hash.ok \/ ~target_hash.ok THEN "err"
                  ELSE IF source_hash.hash = target_hash.hash THEN "true" ELSE "false"
         ELSE "false"

\* create_backup that reports success without writing the copy
create_backup_NoCopy(w, path, fault) ==
    IF fault = "backup" THEN [ok |-> FALSE, w |-> w]
    ELSE [ok |-> TRUE, w |-> w]

\* [ok, w]: copies the file or directory at path to its backup path
create_backup(w, path, fault) ==
    IF fault = "backup" THEN [ok |-> FALSE, w |-> w]
    ELSE LET bp == BackupPath(path, w.now)
         IN  [ok |-> TRUE,
              w |-> Mutate(w, Put(w.fs, Normalize(bp), Stat(w.fs, path)), "backup", bp)]

\* [ok, w]: fs::copy, then the source's permissions and modification time
copy_file_with_metadata(w, source, target, fault) ==
    IF fault = "copy" \/ ~is_file(w.fs, source) THEN [ok |-> FALSE, w |-> w]
    ELSE LET w1 == Mutate(w, Put(w.fs, Normalize(target), File(Stat(w.fs, source).content)),
                          "copy", target)
         IN  IF fault \in {"perm", "mtime"} THEN [ok |-> FALSE, w |-> w1]
             ELSE [ok |-> TRUE, w |-> w1]

\* [ok, w]: the directory tree of source rebuilt at target
copy_dir_recursive(w, source, target, fault) ==
    IF fault = "copy" THEN [ok |-> FALSE, w |-> w]
    ELSE LET w1 == Mutate(w, Put(w.fs, Normalize(target), Dir(Stat(w.fs, source).content)),
                          "copy", target)
         IN  IF fault \in {"perm", "mtime"} THEN [ok |-> FALSE, w |-> w1]
             ELSE [ok |-> TRUE, w |-> w1]

\* the last step of apply_file: the link or the copy, and the outcome
Execute(w, source, target, mode, backup_created, fault) ==
    IF mode = "Symlink"
    THEN IF fault = "link" THEN Err(w)
         ELSE Ok(Mutate(w, Put(w.fs, Normalize(target), Link(source)), "symlink", target),
                 AppliedAction("Symlinked", target, source, backup_created, None))
    ELSE LET c == IF is_dir(w.fs, source)
                  THEN copy_dir_recursive(w, source, target, fault)
                  ELSE copy_file_with_metadata(w, source, target, fault)
         IN  IF ~c.ok THEN Err(c.w)
             ELSE Ok(c.w, AppliedAction("Copied", target, source, backup_created, None))

\* the removal going through a symbolic link to what the link names
RemoveExisting_FollowsLink(w, source, target, mode, backup_created, fault) ==
    LET conflict == exists(w.fs, target) \/ is_symlink(w.fs, target)
        victim == IF is_symlink(w.fs, target) THEN read_link(w.fs, target) ELSE target
    IN  IF conflict /\ fault = "remove" THEN Err(w)
        ELSE LET w1 == IF conflict
                       THEN Mutate(w, Unlink(w.fs, Normalize(victim)), "remove", victim)
                       ELSE w
             IN  IF Parent(target) # None /\ fault = "mkdir" THEN Err(w1)
                 ELSE Execute(w1, source, target, mode, backup_created, fault)

\* the removal of an existing target and the creation of its parents
RemoveExisting(w, source, target, mode, backup_created, fault) ==
    LET conflict == exists(w.fs, target) \/ is_symlink(w.fs, target)
    IN  IF conflict /\ fault = "remove" THEN Err(w)
        ELSE LET w1 == IF conflict
                       THEN Mutate(w, Unlink(w.fs, Normalize(target)), "remove", target)
                       ELSE w
             IN  IF Parent(target) # None /\ fault = "mkdir" THEN Err(w1)
                 ELSE Execute(w1, source, target, mode, backup_created, fault)

\* apply_file that asks before overwriting also when force is set
apply_file_ForcePrompts(w, source, target, mode, backup_enabled, force, answer, fault) ==
    IF ~exists(w.fs, source) THEN Ok(w, Skipped(target, source, "Source not found"))
    ELSE LET done == is_already_applied(w.fs, source, target, mode, fault)
             conflict == exists(w.fs, target) \/ is_symlink(w.fs, target)
         IN  IF done = "err" THEN Err(w)
             ELSE IF done = "true"
             THEN Ok(w, AppliedAction(AppliedModeOf(mode), target, source, FALSE,
                                      Some("Already applied")))
             ELSE
             LET wp == IF conflict THEN Note(w, "prompt", target, answer) ELSE w
             IN  IF conflict /\ ~answer
                 THEN Ok(wp, Skipped(target, source, "User declined"))
                 ELSE IF conflict /\ backup_enabled /\ ~is_symlink(w.fs, target)
                 THEN LET b == create_backup(wp, target, fault)
                      IN  IF ~b.ok THEN Err(wp)
                          ELSE RemoveExisting(b.w, source, target, mode, TRUE, fault)
                 ELSE RemoveExisting(wp, source, target, mode, FALSE, fault)

\* apply_file with a declined prompt treated as an error of the entry
apply_file_DeclineFatal(w, source, target, mode, backup_enabled, force, answer, fault) ==
    IF ~exists(w.fs, source) THEN Ok(w, Skipped(target, source, "Source not found"))
    ELSE LET done == is_already_applied(w.fs, source, target, mode, fault)
             conflict == exists(w.fs, target) \/ is_symlink(w.fs, target)
         IN  IF done = "err" THEN Err(w)
             ELSE IF done = "true"
             THEN Ok(w, AppliedAction(AppliedModeOf(mode), target, source, FALSE,
                                      Some("Already applied")))
             ELSE
             LET wp == IF conflict /\ ~force THEN Note(w, "prompt", target, answer) ELSE w
             IN  IF conflict /\ ~force /\ ~answer
                 THEN Err(wp)
                 ELSE IF conflict /\ backup_enabled /\ ~is_symlink(w.fs, target)
                 THEN LET b == create_backup(wp, target, fault)
                      IN  IF ~b.ok THEN Err(wp)
                          ELSE RemoveExisting(b.w, source, target, mode, TRUE, fault)
                 ELSE RemoveExisting(wp, source, target, mode, FALSE, fault)

apply_file(w, source, target, mode, backup_enabled, force, answer, fault) ==
    IF ~exists(w.fs, source) THEN Ok(w, Skipped(target, source, "Source not found"))
    ELSE LET done == is_already_applied(w.fs, source, target, mode, fault)
             conflict == exists(w.fs, target) \/ is_symlink(w.fs, target)
         IN  IF done = "err" THEN Err(w)
             ELSE IF done = "true"
             THEN Ok(w, AppliedAction(AppliedModeOf(mode), target, source, FALSE,
                                      Some("Already applied")))
             ELSE
             LET wp == IF conflict /\ ~force THEN Note(w, "prompt", target, answer) ELSE w
             IN  IF conflict /\ ~force /\ ~answer
                 THEN Ok(wp, Skipped(target, source, "User declined"))
                 ELSE IF conflict /\ backup_enabled /\ ~is_symlink(w.fs, target)
                 THEN LET b == create_backup(wp, target, fault)
                      IN  IF ~b.ok THEN Err(wp)
                          ELSE RemoveExisting(b.w, source, target, mode, TRUE, fault)
                 ELSE RemoveExisting(wp, source, target, mode, FALSE, fault)

\* the lookup of the override under the relative path without "~/"
file_override_NoTilde(config, rel_path) ==
    LET path_str == Display(rel_path)
    IN  IF path_str \in DOMAIN config.files THEN Some(config.files[path_str]) ELSE None

\* cfg.files.get(&format!("~/{}", rel_path.display()))
file_override(config, rel_path) ==
    LET path_str == "~/" \o Display(rel_path)
    IN  IF path_str \in DOMAIN config.files THEN Some(config.files[path_str]) ELSE None

\* the result of one iteration with the number of temporary files made so far
WithTemps(r, n) ==
    [fs |-> r.fs, log |-> r.log, now |-> r.now, ok |-> r.ok, action |-> r.action, temps |-> n]

\* the iteration with the default mode for every entry, overrides ignored
apply_entry_DefaultModeOnly(w, n, rel_path, config, o, keyOk, answer, fault) ==
    LET source_path == Join(CompiledRoot, rel_path)
        target_path == Join(HomeDir, rel_path)
        is_encrypted == Extension(source_path) = Some("age")
        dec == decrypt_to_memory(w.fs, source_path, keyOk)
        wd == IF is_encrypted THEN Note(w, "decrypt", source_path, dec.ok) ELSE w
    IN  IF is_encrypted /\ ~dec.ok
        THEN WithTemps(Ok(wd, Skipped(target_path, source_path, "Decryption failed")), n)
        ELSE IF is_encrypted /\ fault = "temp" THEN WithTemps(Err(wd), n)
        ELSE
        LET temp_path == TempPath(n + 1)
            temp_decrypted == IF is_encrypted THEN Some(temp_path) ELSE None
            n1 == IF is_encrypted THEN n + 1 ELSE n
            w1 == IF is_encrypted
                  THEN Mutate(wd, Put(wd.fs, temp_path, File(dec.bytes)), "mktemp", temp_path)
                  ELSE wd
            target == IF is_encrypted /\ FileStem(target_path) # None
                      THEN SetFileName(target_path, FileStem(target_path)[1])
                      ELSE target_path
            source == IF is_encrypted THEN temp_path ELSE source_path
            ov == file_override(config, rel_path)
            mode == config.general.default_mode
        IN  IF ~o.allow_outside_home /\ ~StartsWith(target, HomeDir)
            THEN WithTemps(Ok(w1, Skipped(target, source, "Outside $HOME")), n1)
            ELSE IF ov # None /\ ov[1].exclude
            THEN WithTemps(Ok(w1, Skipped(target, source, "Excluded")), n1)
            ELSE LET r == apply_file(w1, source, target, mode, config.general.backup,
                                     o.force, answer, fault)
                 IN  IF ~r.ok THEN WithTemps(r, n1)
                     ELSE IF temp_decrypted # None
                     THEN WithTemps(Ok(Mutate(r, Unlink(r.fs, temp_path), "rmtemp", temp_path),
                                       r.action), n1)
                     ELSE WithTemps(r, n1)

\* one iteration of the loop of apply over manifest.files
apply_entry(w, n, rel_path, config, o, keyOk, answer, fault) ==
    LET source_path == Join(CompiledRoot, rel_path)
        target_path == Join(HomeDir, rel_path)
        is_encrypted == Extension(source_path) = Some("age")
        dec == decrypt_to_memory(w.fs, source_path, keyOk)
        wd == IF is_encrypted THEN Note(w, "decrypt", source_path, dec.ok) ELSE w
    IN  IF is_encrypted /\ ~dec.ok
        THEN WithTemps(Ok(wd, Skipped(target_path, source_path, "Decryption failed")), n)
        ELSE IF is_encrypted /\ fault = "temp" THEN WithTemps(Err(wd), n)
        ELSE
        LET temp_path == TempPath(n + 1)
            temp_decrypted == IF is_encrypted THEN Some(temp_path) ELSE None
            n1 == IF is_encrypted THEN n + 1 ELSE n
            w1 == IF is_encrypted
                  THEN Mutate(wd, Put(wd.fs, temp_path, File(dec.bytes)), "mktemp", temp_path)
                  ELSE wd
            target == IF is_encrypted /\ FileStem(target_path) # None
                      THEN SetFileName(target_path, FileStem(target_path)[1])
                      ELSE target_path
            source == IF is_encrypted THEN temp_path ELSE source_path
            ov == file_override(config, rel_path)
            mode == IF ov # None /\ ov[1].mode # None THEN ov[1].mode[1]
                    ELSE config.general.default_mode
        IN  IF ~o.allow_outside_home /\ ~StartsWith(target, HomeDir)
            THEN WithTemps(Ok(w1, Skipped(target, source, "Outside $HOME")), n1)
            ELSE IF ov # None /\ ov[1].exclude
            THEN WithTemps(Ok(w1, Skipped(target, source, "Excluded")), n1)
            ELSE LET r == apply_file(w1, source, target, mode, config.general.backup,
                                     o.force, answer, fault)
                 IN  IF ~r.ok THEN WithTemps(r, n1)
                     ELSE IF temp_decrypted # None
                     THEN WithTemps(Ok(Mutate(r, Unlink(r.fs, temp_path), "rmtemp", temp_path),
                                       r.action), n1)
                     ELSE WithTemps(r, n1)

(***************************************************************************)
(* Orderings.                                                              *)
(***************************************************************************)
\* the orders in which a HashMap with these keys can be iterated
Perms(S) ==
    {s \in [1..Cardinality(S) -> S] : \A i, j \in 1..Cardinality(S) : s[i] = s[j] => i = j}

\* the components the model uses, in the order of Component::cmp: the root,
\* "..", then the normal names by their bytes
CompOrder == <<RootDir, ParentDir, <<"etc">>, <<"rc">>, <<"rc", "age">>, <<"x">>>>

CompRank(c) == CHOOSE i \in 1..Len(CompOrder) : CompOrder[i] = c

\* Path::cmp: component by component, a proper prefix first
RECURSIVE PathLess(_, _)
PathLess(p, q) ==
    IF Len(q) = 0 THEN FALSE
    ELSE IF Len(p) = 0 THEN TRUE
    ELSE IF p[1] = q[1] THEN PathLess(Tail(p), Tail(q))
    ELSE CompRank(p[1]) < CompRank(q[1])

\* sort_by_key(|(path, _)| path.as_path()) over the keys
SortedPaths(S) ==
    CHOOSE s \in Perms(S) : \A i, j \in 1..Cardinality(S) : i < j => PathLess(s[i], s[j])

(***************************************************************************)
(* Diff engine (src/diff/mod.rs).                                          *)
(***************************************************************************)
DiffEntry(r, s, t, st) ==
    [rel_path |-> r, source_path |-> s, target_path |-> t, status |-> st]

\* the status diff gives one manifest entry
diff_status(f, rel_path, file_hash) ==
    LET source_path == Join(CompiledRoot, rel_path)
        target_path == Join(HomeDir, rel_path)
    IN  IF ~exists(f, target_path) THEN "Missing"
        ELSE IF is_symlink(f, target_path)
        THEN (IF read_link(f, target_path) = source_path THEN "Identical" ELSE "Modified")
        ELSE LET target_hash == hash_file(f, target_path, FALSE)
             IN  IF target_hash.ok
                 THEN (IF target_hash.hash = file_hash.hash THEN "Identical" ELSE "Modified")
                 ELSE "Missing"

\* diff without the sort: the keys taken in the opposite order
diff_Unsorted(f, m) ==
    LET sorted == SortedPaths(DOMAIN m)
        manifest_files == [i \in 1..Len(sorted) |-> sorted[Len(sorted) + 1 - i]]
    IN  [i \in 1..Len(manifest_files) |->
            DiffEntry(manifest_files[i],
                      Join(CompiledRoot, manifest_files[i]),
                      Join(HomeDir, manifest_files[i]),
                      diff_status(f, manifest_files[i], m[manifest_files[i]]))]

\* diff: one entry per manifest key, keys sorted
diff(f, m) ==
    LET manifest_files == SortedPaths(DOMAIN m)
    IN  [i \in 1..Len(manifest_files) |->
            DiffEntry(manifest_files[i],
                      Join(CompiledRoot, manifest_files[i]),
                      Join(HomeDir, manifest_files[i]),
                      diff_status(f, manifest_files[i], m[manifest_files[i]]))]

(***************************************************************************)
(* Manifest::diff (src/hash/mod.rs).  keysSelf and keysOther are the       *)
(* orders in which the two HashMaps are iterated.                          *)
(***************************************************************************)
\* Manifest::diff comparing the whole fingerprint instead of the hash
manifest_diff_WholeRecord(self, other, keysSelf, keysOther) ==
    LET IsModified(p) == p \in DOMAIN other /\ self[p] # other[p]
        IsDeleted(p) == p \notin DOMAIN other
        IsAdded(p) == p \notin DOMAIN self
    IN  [added |-> SelectSeq(keysOther, IsAdded),
         modified |-> SelectSeq(keysSelf, IsModified),
         deleted |-> SelectSeq(keysSelf, IsDeleted)]

manifest_diff(self, other, keysSelf, keysOther) ==
    LET IsModified(p) == p \in DOMAIN other /\ self[p].hash # other[p].hash
        IsDeleted(p) == p \notin DOMAIN other
        IsAdded(p) == p \notin DOMAIN self
    IN  [added |-> SelectSeq(keysOther, IsAdded),
         modified |-> SelectSeq(keysSelf, IsModified),
         deleted |-> SelectSeq(keysSelf, IsDeleted)]

(***************************************************************************)
(* The rest of src/hash/mod.rs: fingerprints of several files, the verify  *)
(* operation, and the manifest file.                                       *)
(***************************************************************************)
\* the metadata the model gives every file: mode 0644, one modification time
FileMode == 420
FileTime == [secs |-> 1, nanos |-> 0]

\* the FileHash hash_file returns for a file it can read
FileHashOf(f, p) ==
    FileHash(p, hash_file(f, p, FALSE).hash, Len(Stat(f, p).content), FileMode, FileTime)

\* hash_files that ends at the first path hash_file refuses
RECURSIVE hash_files_StopAtError(_, _)
hash_files_StopAtError(f, paths) ==
    IF paths = <<>> THEN <<>>
    ELSE IF hash_file(f, Head(paths), FALSE).ok
         THEN <<FileHashOf(f, Head(paths))>> \o hash_files_StopAtError(f, Tail(paths))
         ELSE <<>>

\* hash_files: the fingerprints of the paths that hash_file accepts, in the
\* order of the paths; Ok in every case
RECURSIVE hash_files(_, _)
hash_files(f, paths) ==
    IF paths = <<>> THEN <<>>
    ELSE LET rest == hash_files(f, Tail(paths))
         IN  IF hash_file(f, Head(paths), FALSE).ok
             THEN <<FileHashOf(f, Head(paths))>> \o rest
             ELSE rest

\* verify_file: "true", "false" or "err"
verify_file(f, file_hash) ==
    IF ~exists(f, file_hash.path) THEN "false"
    ELSE LET current_hash == hash_file(f, file_hash.path, FALSE)
         IN  IF ~current_hash.ok THEN "err"
             ELSE IF current_hash.hash = file_hash.hash THEN "true" ELSE "false"

\* verify_manifest over the keys in the order the HashMap gives them: the
\* first error ends it
RECURSIVE verify_manifest(_, _, _)
verify_manifest(f, files, keys) ==
    IF keys = <<>> THEN [ok |-> TRUE, invalid_files |-> <<>>]
    ELSE LET v == verify_file(f, files[Head(keys)])
             rest == verify_manifest(f, files, Tail(keys))
         IN  IF v = "err" \/ ~rest.ok THEN [ok |-> FALSE, invalid_files |-> <<>>]
             ELSE IF v = "false"
             THEN [ok |-> TRUE, invalid_files |-> <<Head(keys)>> \o rest.invalid_files]
             ELSE rest

\* a file name part that is not valid UTF-8
InvalidUtf8 == "<ff>"

IsUtf8(p) == \A i \in 1..Len(p) : \A j \in 1..Len(p[i]) : p[i][j] # InvalidUtf8

\* Serialize for Path: the text of the path, an error when it is not UTF-8
path_to_str(p) == IF IsUtf8(p) THEN Some(Display(p)) ELSE None

\* Serialize for DateTime<Utc>: RFC 3339, the fraction printed when it is
\* not zero; the text is <<seconds>> or <<seconds, nanoseconds>>
to_rfc3339(t) == IF t.nanos = 0 THEN <<t.secs>> ELSE <<t.secs, t.nanos>>

\* Deserialize for DateTime<Utc>
parse_from_rfc3339(text) ==
    [secs |-> text[1], nanos |-> IF Len(text) > 1 THEN text[2] ELSE 0]

\* the JSON object of one FileHash
SerializeFileHash(h) ==
    [path |-> path_to_str(h.path)[1], hash |-> h.hash, size |-> h.size, mode |-> h.mode,
     modified |-> to_rfc3339(h.modified)]

DeserializeFileHash(j) ==
    FileHash(PathBuf_from(j.path), j.hash, j.size, j.mode, parse_from_rfc3339(j.modified))

\* serde_json::to_string_pretty(self): None when a path has no text
to_string_pretty(m) ==
    IF \E k \in DOMAIN m.files : ~IsUtf8(k) \/ ~IsUtf8(m.files[k].path) THEN None
    ELSE Some([version |-> m.version,
               created |-> to_rfc3339(m.created),
               files |-> [t \in {Display(k) : k \in DOMAIN m.files} |->
                            SerializeFileHash(
                                m.files[CHOOSE k \in DOMAIN m.files : Display(k) = t])]])

\* serde_json::from_str(&content)
from_str(content) ==
    [version |-> content.version,
     created |-> parse_from_rfc3339(content.created),
     files |-> [k \in {PathBuf_from(t) : t \in DOMAIN content.files} |->
                  DeserializeFileHash(
                      content.files[CHOOSE t \in DOMAIN content.files : PathBuf_from(t) = k])]]

\* Manifest::save: [ok, lock], lock the text of the file after the call
save(m, lk, unwritable) ==
    LET content == to_string_pretty(m)
    IN  IF content = None \/ unwritable THEN [ok |-> FALSE, lock |-> lk]
        ELSE [ok |-> TRUE, lock |-> content]

\* Manifest::load: [ok, manifest]
load(lk) ==
    IF lk = None THEN [ok |-> FALSE, manifest |-> <<>>]
    ELSE [ok |-> TRUE, manifest |-> from_str(lk[1])]

(***************************************************************************)
(* The inputs the model draws.                                             *)
(***************************************************************************)
\* file contents and a directory tree
C1 == <<"c1">>
C2 == <<"c2">>
D1 == <<"tree1">>

\* the relative paths a manifest can hold: a plain file, its encrypted twin,
\* a path that climbs out of the root, an absolute path
PlainPath == << <<"rc">> >>
EncryptedPath == << <<"rc", "age">> >>
ParentPath == << ParentDir, <<"x">> >>
AbsolutePath == << RootDir, <<"etc">>, <<"x">> >>
RelPaths == {PlainPath, EncryptedPath, ParentPath, AbsolutePath}

\* a file and a missing path outside the managed trees
OtherFile == <<RootDir, <<"other">>>>
Gone == <<RootDir, <<"gone">>>>

IsEncryptedPath(rel) == Extension(rel) = Some("age")

SourceLoc(rel) == Normalize(Join(CompiledRoot, rel))

\* the path apply writes for the entry
TargetOf(rel) ==
    LET t == Join(HomeDir, rel)
    IN  IF IsEncryptedPath(rel) THEN SetFileName(t, FileStem(t)[1]) ELSE t

TargetLoc(rel) == Normalize(TargetOf(rel))

\* The situations of one entry are explored in full in the manifests of one
\* entry; a manifest of several entries combines the situations that decide
\* whether an entry is skipped, applied, or meets a target in its way.
Alone(S) == Cardinality(S) = 1

\* the hashes the manifest can store for a path: that of the compiled file,
\* or a stale one
HashChoices(rel, S) ==
    IF rel = PlainPath /\ Alone(S) THEN {Blake3(C1), Blake3(C2)}
    ELSE IF IsEncryptedPath(rel) THEN {Blake3(Encrypt(C1))}
    ELSE {Blake3(C1)}

\* the manifests: up to MaxEntries of the paths, each with a stored hash
Manifests ==
    UNION { {m \in [S -> [path : S, hash : UNION {HashChoices(r, S) : r \in S},
                          size : {1}, mode : {420}, modified : {1}]] :
                \A r \in S : m[r].path = r /\ m[r].hash \in HashChoices(r, S)} :
            S \in {T \in SUBSET RelPaths : Cardinality(T) \in 1..MaxEntries} }

SourceNodes(rel, S) ==
    IF IsEncryptedPath(rel) THEN {Absent, File(Encrypt(C1))}
    ELSE IF rel = PlainPath /\ Alone(S) THEN {Absent, File(C1), Dir(D1)}
    ELSE {Absent, File(C1)}

TargetNodes(loc, S) ==
    IF loc = TargetLoc(PlainPath) /\ Alone(S)
    THEN {Absent, File(C1), File(C2), Dir(D1),
          Link(Join(CompiledRoot, PlainPath)), Link(OtherFile), Link(Gone)}
    ELSE {Absent, File(C2)}

\* what a place of the tree can hold at the start, given the manifest
NodeChoices(loc, m) ==
    IF \E r \in DOMAIN m : SourceLoc(r) = loc
    THEN SourceNodes(CHOOSE r \in DOMAIN m : SourceLoc(r) = loc, DOMAIN m)
    ELSE TargetNodes(loc, DOMAIN m)

EmptyTree == [l \in {OtherFile} |-> File(C2)]

RECURSIVE Trees(_, _)
Trees(locs, m) ==
    IF locs = {} THEN {EmptyTree}
    ELSE LET l == CHOOSE x \in locs : TRUE
         IN  {IF n = Absent THEN t ELSE Put(t, l, n) :
                 t \in Trees(locs \ {l}, m), n \in NodeChoices(l, m)}

\* the trees apply can meet for a manifest
InitTrees(m) == Trees({SourceLoc(r) : r \in DOMAIN m} \cup {TargetLoc(r) : r \in DOMAIN m}, m)

FileOverride(md, ex) == [mode |-> md, exclude |-> ex]

\* the per-path overrides: none, or one entry excluded or given the other mode
Overrides(m, default_mode) ==
    {[k \in {} |-> FileOverride(None, FALSE)]} \cup
    UNION { {[k \in {"~/" \o Display(r)} |-> FileOverride(None, TRUE)]} \cup
            (IF Alone(DOMAIN m)
             THEN {[k \in {"~/" \o Display(r)} |->
                     FileOverride(Some(IF default_mode = "Symlink" THEN "Copy" ELSE "Symlink"),
                                  FALSE)]}
             ELSE {}) : r \in DOMAIN m }

Configs(m) ==
    UNION { {[general |-> [default_mode |-> dm, backup |-> b], files |-> ov] :
                ov \in Overrides(m, dm)} : dm \in {"Symlink", "Copy"}, b \in BOOLEAN }

Opts == [force : BOOLEAN, allow_outside_home : BOOLEAN]

(***************************************************************************)
(* State.                                                                  *)
(***************************************************************************)
VARIABLES
    manifest,     \* the manifest handed to apply and diff: rel_path -> FileHash
    cfg,          \* Config: general.default_mode, general.backup, files
    opts,         \* ApplyOpts: force, allow_outside_home; force is the flag of snapshot too
    fs,           \* the filesystem
    pc,           \* "idle", "applying" (in the loop), "done" (Ok), "error" (Err)
    order,        \* the order in which this pass iterates manifest.files
    actions,      \* the Vec<AppliedAction> of this pass
    log,          \* what this pass has done, each event with its entry's index
    temps,        \* temporary files created so far
    pass,         \* apply passes started; the clock
    prev,         \* what the pass before this one returned
    entries,      \* what the last diff returned, <<>> once apply has run again
    mOld,         \* the two manifests of Manifest::diff
    mNew,
    mdiff,        \* the ManifestDiff last computed
    hooks,        \* config.hooks: None or Some(HooksConfig)
    command,      \* the command being run: "none", "apply", "snapshot"
    lock,         \* the text of manifest.lock, None while the file does not exist
    tracked,      \* a list of paths: config.general.tracked_files, the paths of hash_files
    hashes,       \* what hash_files returned
    invalid,      \* what verify_manifest returned
    loaded,       \* what Manifest::load returned
    saving,       \* the Manifest handed to Manifest::save, None when there is none
    saved,        \* what Manifest::save returned
    only,         \* the filter strings of --only
    filtered,     \* what filter_by_paths returned
    pid_file,     \* the text of daemon.pid, None while the file does not exist
    daemons       \* the place of every process that runs daemon::start

vars == <<manifest, cfg, opts, fs, pc, order, actions, log, temps, pass, prev, entries,
          mOld, mNew, mdiff, hooks, command, lock, tracked, hashes, invalid, loaded,
          saving, saved, only, filtered, pid_file, daemons>>

applyVars == <<manifest, cfg, opts, fs, pc, order, actions, log, temps, pass, prev, entries>>
diffVars == <<mOld, mNew, mdiff>>
cmdVars == <<hooks, command, lock, tracked>>
hashVars == <<hashes, invalid, loaded, saving, saved>>
filterVars == <<only, filtered>>
daemonVars == <<pid_file, daemons>>

\* nothing computed yet
NotRun == [ran |-> FALSE]

\* the variables of the commands, of the hash functions and of the filter
\* while a specification does not use them
CmdIdle == hooks = None /\ command = "none" /\ lock = None /\ tracked = <<>>
HashIdle ==
    hashes = NotRun /\ invalid = NotRun /\ loaded = NotRun /\ saving = None /\ saved = NotRun
FilterIdle == only = <<>> /\ filtered = NotRun
DaemonIdle == pid_file = None /\ daemons = <<>>

NoPrev == [ran |-> FALSE, order |-> <<>>, actions |-> <<>>]
NoDiff == [computed |-> FALSE, added |-> <<>>, modified |-> <<>>, deleted |-> <<>>]
EmptyManifest == [r \in {} |-> FileHash(<<>>, <<>>, 0, 0, 0)]

Tag(e, i) == [op |-> e.op, path |-> e.path, ok |-> e.ok, entry |-> i]

Init ==
    /\ manifest \in Manifests
    /\ cfg \in Configs(manifest)
    /\ opts \in Opts
    /\ fs \in InitTrees(manifest)
    /\ pc = "idle"
    /\ order = <<>>
    /\ actions = <<>>
    /\ log = <<>>
    /\ temps = 0
    /\ pass = 0
    /\ prev = NoPrev
    /\ entries = <<>>
    /\ mOld = EmptyManifest
    /\ mNew = EmptyManifest
    /\ mdiff = NoDiff
    /\ CmdIdle /\ HashIdle /\ FilterIdle /\ DaemonIdle

(***************************************************************************)
(* apply: entry to the function.  The loop iterates a HashMap, whose       *)
(* order is any order of its keys.                                         *)
(***************************************************************************)
StartApply ==
    /\ pc \in {"idle", "done"}
    /\ pass < MaxPasses
    /\ order' \in Perms(DOMAIN manifest)
    /\ prev' = IF pc = "done" THEN [ran |-> TRUE, order |-> order, actions |-> actions]
               ELSE NoPrev
    /\ pass' = pass + 1
    /\ pc' = "applying"
    /\ actions' = <<>>
    /\ log' = <<>>
    /\ entries' = <<>>
    /\ UNCHANGED <<manifest, cfg, opts, fs, temps>>
    /\ UNCHANGED <<diffVars, cmdVars, hashVars, filterVars, daemonVars>>

\* what the environment can answer an entry: whether the identity decrypts
\* (asked for encrypted entries only) and whether the user confirms (asked
\* without force only)
KeyAnswers(rel) == IF IsEncryptedPath(rel) THEN BOOLEAN ELSE {TRUE}
PromptAnswers(o) == IF o.force THEN {TRUE} ELSE BOOLEAN

\* one iteration of the loop: the next entry, with what the environment
\* answers (the identity decrypts, the user confirms, an operation fails)
ApplyEntry ==
    /\ pc = "applying"
    /\ Len(actions) < Len(order)
    /\ \E keyOk \in KeyAnswers(order[Len(actions) + 1]), answer \in PromptAnswers(opts),
          fault \in Faults :
         LET i == Len(actions) + 1
         IN  \E r \in {apply_entry([fs |-> fs, log |-> <<>>, now |-> pass], temps, order[i],
                                    cfg, opts, keyOk, answer, fault)} :
             /\ fs' = r.fs
             /\ log' = log \o [k \in 1..Len(r.log) |-> Tag(r.log[k], i)]
             /\ temps' = r.temps
             /\ actions' = IF r.ok THEN Append(actions, r.action) ELSE actions
             /\ pc' = IF r.ok THEN "applying" ELSE "error"
    /\ UNCHANGED <<manifest, cfg, opts, order, pass, prev, entries>>
    /\ UNCHANGED <<diffVars, cmdVars, hashVars, filterVars, daemonVars>>

\* the loop is over: print_summary and Ok(actions)
FinishApply ==
    /\ pc = "applying"
    /\ Len(actions) = Len(order)
    /\ pc' = "done"
    /\ UNCHANGED <<manifest, cfg, opts, fs, order, actions, log, temps, pass, prev, entries>>
    /\ UNCHANGED <<diffVars, cmdVars, hashVars, filterVars, daemonVars>>

(***************************************************************************)
(* diff over the current tree.                                             *)
(***************************************************************************)
RunDiff ==
    /\ pc \in {"idle", "done"}
    /\ entries = <<>>
    /\ entries' = diff(fs, manifest)
    /\ UNCHANGED <<manifest, cfg, opts, fs, pc, order, actions, log, temps, pass, prev>>
    /\ UNCHANGED <<diffVars, cmdVars, hashVars, filterVars, daemonVars>>

Next == StartApply \/ ApplyEntry \/ FinishApply \/ RunDiff

Spec == Init /\ [][Next]_vars

(***************************************************************************)
(* Manifest::diff as a computation of its own: two manifests drawn from    *)
(* the paths, hashes and metadata below, and the diff of the first         *)
(* against the second under any two iteration orders.                      *)
(***************************************************************************)
\* number of paths the two manifests draw their keys from
MaxDiffPaths == 3

DiffPaths == {SortedPaths(RelPaths)[i] : i \in 1..MaxDiffPaths}

\* fingerprints of a path: two contents, each captured with two metadata
FileHashes(p) ==
    {FileHash(p, Blake3(c), meta.size, meta.mode, meta.modified) :
        c \in {C1, C2},
        meta \in {[size |-> 2, mode |-> 420, modified |-> 1],
                  [size |-> 7, mode |-> 384, modified |-> 2]}}

DiffManifests ==
    UNION { {m \in [S -> UNION {FileHashes(p) : p \in S}] : \A p \in S : m[p].path = p} :
            S \in SUBSET DiffPaths }

InitManifests ==
    /\ mOld \in DiffManifests
    /\ mNew \in DiffManifests
    /\ mdiff = NoDiff
    /\ manifest = EmptyManifest
    /\ cfg = [general |-> [default_mode |-> "Symlink", backup |-> TRUE],
              files |-> [k \in {} |-> FileOverride(None, FALSE)]]
    /\ opts = [force |-> FALSE, allow_outside_home |-> FALSE]
    /\ fs = EmptyTree
    /\ pc = "idle"
    /\ order = <<>>
    /\ actions = <<>>
    /\ log = <<>>
    /\ temps = 0
    /\ pass = 0
    /\ prev = NoPrev
    /\ entries = <<>>
    /\ CmdIdle /\ HashIdle /\ FilterIdle /\ DaemonIdle

\* mOld.diff(&mNew)
ManifestDiff ==
    /\ ~mdiff.computed
    /\ \E keysSelf \in Perms(DOMAIN mOld), keysOther \in Perms(DOMAIN mNew) :
         \E d \in {manifest_diff(mOld, mNew, keysSelf, keysOther)} :
            mdiff' = [computed |-> TRUE, added |-> d.added, modified |-> d.modified,
                      deleted |-> d.deleted]
    /\ UNCHANGED <<mOld, mNew>>
    /\ UNCHANGED <<applyVars, cmdVars, hashVars, filterVars, daemonVars>>

SpecManifest == InitManifests /\ [][ManifestDiff]_vars

(***************************************************************************)
(* The commands with hooks (src/main.rs): cmd_apply and                    *)
(* cmd_snapshot_create run the pre hooks in list order, then the           *)
(* operation, then the post hooks; run_hook fails the command with "?".    *)
(***************************************************************************)
\* longest list of hooks of one kind
MaxHooks == 2

\* what running "sh -c hook" can give: exit code 0, another exit code, or
\* no process at all
HookOutcomes == {"exit0", "exit1", "nospawn"}

\* run_hook that looks only at whether the process started
run_hook_AnyExit(outcome) == outcome # "nospawn"

\* run_hook: Ok exactly for a process that exits with 0
run_hook(outcome) == outcome = "exit0"

HooksConfig(pre_snapshot, post_snapshot, pre_apply, post_apply) ==
    [pre_snapshot |-> pre_snapshot, post_snapshot |-> post_snapshot,
     pre_apply |-> pre_apply, post_apply |-> post_apply]

\* Path::strip_prefix
strip_prefix(p, base) ==
    IF StartsWith(p, base) THEN Some(SubSeq(p, Len(base) + 1, Len(p))) ELSE None

\* the path of a tracked file relative to home, or the path itself
RelToHome(p) == IF strip_prefix(p, HomeDir) # None THEN strip_prefix(p, HomeDir)[1] ELSE p

\* Manifest::new() at the time now
NewManifest(now) ==
    [version |-> "1.0.0", created |-> [secs |-> now, nanos |-> 0], files |-> EmptyManifest]

\* the copies of the fingerprinted files into the compiled root
RECURSIVE copy_tracked(_, _, _)
copy_tracked(w, hs, i) ==
    IF i > Len(hs) THEN w
    ELSE LET dest_path == Join(CompiledRoot, RelToHome(hs[i].path))
             w1 == [fs |-> Put(w.fs, Normalize(dest_path), File(Stat(w.fs, hs[i].path).content)),
                    log |-> Append(w.log, Tag(Event("copy", dest_path, TRUE), i)),
                    now |-> w.now]
         IN  copy_tracked(w1, hs, i + 1)

\* repo::snapshot: [ok, fs, lock, log].  fault names the step the
\* environment refuses: "copy" (the first copy) or "save"
snapshot(w, lk, tracked_files, force, fault) ==
    LET current == load(lk)
        has_changes ==
            \E i \in 1..Len(tracked_files) :
                LET file == tracked_files[i]
                IN  \/ ~exists(w.fs, file)
                    \/ file \notin DOMAIN current.manifest.files
                    \/ /\ hash_file(w.fs, file, FALSE).ok
                       /\ current.manifest.files[file].hash # hash_file(w.fs, file, FALSE).hash
        hs == hash_files(w.fs, tracked_files)
        unchanged == [ok |-> TRUE, fs |-> w.fs, lock |-> lk, log |-> w.log]
        failed == [ok |-> FALSE, fs |-> w.fs, lock |-> lk, log |-> w.log]
    IN  IF ~force /\ lk # None /\ ~has_changes THEN unchanged
        ELSE IF fault = "copy" /\ hs # <<>> THEN failed
        ELSE LET w1 == copy_tracked(w, hs, 1)
                 files == [r \in {RelToHome(hs[i].path) : i \in 1..Len(hs)} |->
                            LET h == hs[CHOOSE i \in 1..Len(hs) : RelToHome(hs[i].path) = r]
                            IN  FileHash(r, h.hash, h.size, h.mode, h.modified)]
                 m == [version |-> NewManifest(w.now).version,
                       created |-> NewManifest(w.now).created, files |-> files]
                 sv == save(m, lk, fault = "save")
             IN  [ok |-> sv.ok, fs |-> w1.fs, lock |-> sv.lock,
                  log |-> IF sv.ok
                          THEN Append(w1.log, [op |-> "save", path |-> <<>>, ok |-> TRUE,
                                               entry |-> 0])
                          ELSE w1.log]

\* the lists of hooks of one kind
HookLists == {<<>>} \cup UNION {[1..n -> {"a", "b"}] : n \in 1..MaxHooks}

\* config.hooks: absent, or the hooks of the command that is run
HookConfigs(c) ==
    {None} \cup
    {Some(IF c = "apply" THEN HooksConfig(<<>>, <<>>, pre, post)
          ELSE HooksConfig(pre, post, <<>>, <<>>)) : pre \in HookLists, post \in HookLists}

\* the manifests a command finds in manifest.lock
LockedManifests ==
    {[r \in S |-> FileHash(r, IF IsEncryptedPath(r) THEN Blake3(Encrypt(C1)) ELSE Blake3(C1),
                           1, FileMode, FileTime)] :
        S \in {{PlainPath}, {PlainPath, EncryptedPath}}}

\* the text of manifest.lock for a files map
LockOf(files) ==
    to_string_pretty([version |-> "1.0.0", created |-> [secs |-> 0, nanos |-> 5],
                      files |-> files])

\* the tracked files of a snapshot
TrackedLists == {<<>>, <<TargetOf(PlainPath)>>, <<TargetOf(PlainPath), OtherFile>>}

ApplyIdle ==
    /\ order = <<>> /\ actions = <<>> /\ log = <<>> /\ temps = 0 /\ pass = 0
    /\ prev = NoPrev /\ entries = <<>>

DiffIdle == mOld = EmptyManifest /\ mNew = EmptyManifest /\ mdiff = NoDiff

InitHooks ==
    /\ command \in {"apply", "snapshot"}
    /\ hooks \in HookConfigs(command)
    /\ \E m \in LockedManifests :
          /\ lock \in {None, LockOf(m)}
          /\ fs \in InitTrees(m)
    /\ tracked \in (IF command = "snapshot" THEN TrackedLists ELSE {<<>>})
    /\ manifest = EmptyManifest
    /\ cfg \in {[general |-> [default_mode |-> dm, backup |-> FALSE],
                 files |-> [k \in {} |-> FileOverride(None, FALSE)]] : dm \in {"Symlink", "Copy"}}
    /\ opts \in {[force |-> f, allow_outside_home |-> FALSE] :
                     f \in IF command = "snapshot" THEN BOOLEAN ELSE {TRUE}}
    /\ pc = "start"
    /\ ApplyIdle /\ DiffIdle /\ HashIdle /\ FilterIdle /\ DaemonIdle

\* the hooks of one kind ("pre" or "post") of the command
HooksOf(kind) ==
    IF hooks = None THEN <<>>
    ELSE IF command = "apply"
    THEN (IF kind = "pre" THEN hooks[1].pre_apply ELSE hooks[1].post_apply)
    ELSE (IF kind = "pre" THEN hooks[1].pre_snapshot ELSE hooks[1].post_snapshot)

\* the hooks of the kind run so far
HooksRun(kind) == Cardinality({k \in 1..Len(log) : log[k].op = kind})

\* the paths cmd_apply selects: every entry diff does not call Identical
selected_paths(es) == {es[k].rel_path : k \in {j \in 1..Len(es) : es[j].status # "Identical"}}

\* cmd_apply up to the hooks: no manifest, or nothing selected, ends the
\* command with Ok
CmdApplyStart ==
    /\ pc = "start"
    /\ command = "apply"
    /\ IF lock = None
       THEN pc' = "ok" /\ UNCHANGED <<manifest, entries>>
       ELSE /\ manifest' = load(lock).manifest.files
            /\ entries' = diff(fs, manifest')
            /\ pc' = IF selected_paths(entries') = {} THEN "ok" ELSE "pre"
    /\ UNCHANGED <<cfg, opts, fs, order, actions, log, temps, pass, prev>>
    /\ UNCHANGED <<diffVars, cmdVars, hashVars, filterVars, daemonVars>>

\* cmd_snapshot_create up to the hooks
CmdSnapshotStart ==
    /\ pc = "start"
    /\ command = "snapshot"
    /\ pc' = "pre"
    /\ UNCHANGED <<manifest, cfg, opts, fs, order, actions, log, temps, pass, prev, entries>>
    /\ UNCHANGED <<diffVars, cmdVars, hashVars, filterVars, daemonVars>>

\* the event of the n-th hook of a kind, run with an outcome
HookEvent(kind, n, outcome) ==
    [op |-> kind, hook |-> HooksOf(kind)[n], outcome |-> outcome, ok |-> run_hook(outcome),
     entry |-> n]

\* the next pre hook of the list: run_hook(hook)?
RunPreHook ==
    /\ pc = "pre"
    /\ HooksRun("pre") < Len(HooksOf("pre"))
    /\ \E outcome \in HookOutcomes :
         /\ log' = Append(log, HookEvent("pre", HooksRun("pre") + 1, outcome))
         /\ pc' = IF run_hook(outcome) THEN "pre" ELSE "failed"
    /\ UNCHANGED <<manifest, cfg, opts, fs, order, actions, temps, pass, prev, entries>>
    /\ UNCHANGED <<diffVars, cmdVars, hashVars, filterVars, daemonVars>>

\* the next post hook of the list: run_hook(hook)?
RunPostHook ==
    /\ pc = "post"
    /\ HooksRun("post") < Len(HooksOf("post"))
    /\ \E outcome \in HookOutcomes :
         /\ log' = Append(log, HookEvent("post", HooksRun("post") + 1, outcome))
         /\ pc' = IF run_hook(outcome) THEN "post" ELSE "failed"
    /\ UNCHANGED <<manifest, cfg, opts, fs, order, actions, temps, pass, prev, entries>>
    /\ UNCHANGED <<diffVars, cmdVars, hashVars, filterVars, daemonVars>>

\* the manifest of the selected paths is handed to apply: the loop of
\* ApplyEntry and FinishApply runs over it
CmdApplyBody ==
    /\ pc = "pre"
    /\ command = "apply"
    /\ HooksRun("pre") = Len(HooksOf("pre"))
    /\ manifest' = [r \in selected_paths(entries) |-> manifest[r]]
    /\ order' \in Perms(selected_paths(entries))
    /\ pass' = pass + 1
    /\ pc' = "applying"
    /\ UNCHANGED <<cfg, opts, fs, actions, log, temps, prev, entries>>
    /\ UNCHANGED <<diffVars, cmdVars, hashVars, filterVars, daemonVars>>

\* apply(...)? in cmd_apply: Ok goes on to the post hooks, Err fails the command
CmdApplyReturned ==
    /\ command = "apply"
    /\ pc \in {"done", "error"}
    /\ pc' = IF pc = "done" THEN "post" ELSE "failed"
    /\ UNCHANGED <<manifest, cfg, opts, fs, order, actions, log, temps, pass, prev, entries>>
    /\ UNCHANGED <<diffVars, cmdVars, hashVars, filterVars, daemonVars>>

\* repo::snapshot, then snapshots::create, which the environment can refuse
SnapshotBody ==
    /\ pc = "pre"
    /\ command = "snapshot"
    /\ HooksRun("pre") = Len(HooksOf("pre"))
    /\ \E fault \in {"none", "copy", "save", "create"} :
         \E r \in {snapshot([fs |-> fs, log |-> <<>>, now |-> pass + 1], lock, tracked,
                             opts.force, fault)} :
            /\ fs' = r.fs
            /\ lock' = r.lock
            /\ log' = log \o r.log
            /\ pc' = IF r.ok /\ fault # "create" THEN "post" ELSE "failed"
    /\ pass' = pass + 1
    /\ UNCHANGED <<manifest, cfg, opts, order, actions, temps, prev, entries>>
    /\ UNCHANGED <<hooks, command, tracked>>
    /\ UNCHANGED <<diffVars, hashVars, filterVars, daemonVars>>

\* the post hooks are over: Ok(())
CmdFinish ==
    /\ pc = "post"
    /\ HooksRun("post") = Len(HooksOf("post"))
    /\ pc' = "ok"
    /\ UNCHANGED <<manifest, cfg, opts, fs, order, actions, log, temps, pass, prev, entries>>
    /\ UNCHANGED <<diffVars, cmdVars, hashVars, filterVars, daemonVars>>

NextHooks ==
    \/ CmdApplyStart \/ CmdSnapshotStart \/ RunPreHook \/ RunPostHook
    \/ CmdApplyBody \/ ApplyEntry \/ FinishApply \/ CmdApplyReturned
    \/ SnapshotBody \/ CmdFinish

SpecHooks == InitHooks /\ [][NextHooks]_vars

(***************************************************************************)
(* The functions of src/hash/mod.rs as computations of their own: a tree,  *)
(* a list of paths, a manifest of these paths and a manifest to save.      *)
(***************************************************************************)
\* longest list of paths
MaxHashPaths == 2

\* a file whose name is not valid UTF-8
BadNameFile == Join(HomeDir, << <<InvalidUtf8>> >>)

\* the paths handed to hash_files: two that may hold a file or a directory,
\* one with a name that is not text, one that is missing
HashPaths == {TargetOf(PlainPath), OtherFile, BadNameFile, Gone}

HashPathLists == UNION {[1..n -> HashPaths] : n \in 0..MaxHashPaths}

HashNodes(loc) ==
    IF loc = TargetOf(PlainPath) THEN {Absent, File(C1), File(C2), Dir(D1)}
    ELSE IF loc = OtherFile THEN {File(C2), Dir(D1)}
    ELSE {Absent, File(C1)}

HashTrees ==
    {[l \in {loc \in {TargetOf(PlainPath), OtherFile, BadNameFile} : n[loc] # Absent} |-> n[l]] :
        n \in {c \in [{TargetOf(PlainPath), OtherFile, BadNameFile} ->
                        {Absent, File(C1), File(C2), Dir(D1)}] :
                  \A loc \in DOMAIN c : c[loc] \in HashNodes(loc)}}

\* the manifests of a set of paths, as hash_file fills them at some time:
\* the stored hash is that of one of the contents
HashManifests(S) ==
    {m \in [S -> [path : S, hash : {Blake3(C1), Blake3(C2)}, size : {1}, mode : {FileMode},
                  modified : {FileTime}]] : \A k \in S : m[k].path = k}

InitHash ==
    /\ fs \in HashTrees
    /\ tracked \in HashPathLists
    /\ manifest \in HashManifests({tracked[i] : i \in 1..Len(tracked)})
    /\ \E created \in {[secs |-> 0, nanos |-> 5], FileTime} :
           saving = Some([version |-> "1.0.0", created |-> created, files |-> manifest])
    /\ hashes = NotRun /\ invalid = NotRun /\ loaded = NotRun /\ saved = NotRun
    /\ cfg = [general |-> [default_mode |-> "Symlink", backup |-> TRUE],
              files |-> [k \in {} |-> FileOverride(None, FALSE)]]
    /\ opts = [force |-> FALSE, allow_outside_home |-> FALSE]
    /\ pc = "idle"
    /\ hooks = None /\ command = "none" /\ lock = None
    /\ ApplyIdle /\ DiffIdle /\ FilterIdle /\ DaemonIdle

\* hash_files(&paths, progress)
HashFiles ==
    /\ ~hashes.ran
    /\ hashes' = [ran |-> TRUE, ok |-> TRUE, value |-> hash_files(fs, tracked)]
    /\ UNCHANGED <<invalid, loaded, saving, saved>>
    /\ UNCHANGED <<applyVars, diffVars, cmdVars, filterVars, daemonVars>>

\* verify_manifest(&manifest): the HashMap is iterated in some order
VerifyManifest ==
    /\ ~invalid.ran
    /\ \E keys \in Perms(DOMAIN manifest) :
         \E r \in {verify_manifest(fs, manifest, keys)} :
           invalid' = [ran |-> TRUE, ok |-> r.ok, value |-> r.invalid_files]
    /\ UNCHANGED <<hashes, loaded, saving, saved>>
    /\ UNCHANGED <<applyVars, diffVars, cmdVars, filterVars, daemonVars>>

\* manifest.save(&path): the file may refuse the write
SaveManifest ==
    /\ ~saved.ran
    /\ \E unwritable \in BOOLEAN :
         \E r \in {save(saving[1], lock, unwritable)} :
           /\ saved' = [ran |-> TRUE, ok |-> r.ok, unwritable |-> unwritable]
           /\ lock' = r.lock
    /\ UNCHANGED <<hashes, invalid, loaded, saving>>
    /\ UNCHANGED <<applyVars, diffVars, hooks, command, tracked, filterVars, daemonVars>>

\* Manifest::load(&path) after the save
LoadManifest ==
    /\ saved.ran
    /\ ~loaded.ran
    /\ \E r \in {load(lock)} :
         loaded' = [ran |-> TRUE, ok |-> r.ok, manifest |-> r.manifest]
    /\ UNCHANGED <<hashes, invalid, saving, saved>>
    /\ UNCHANGED <<applyVars, diffVars, cmdVars, filterVars, daemonVars>>

NextHash == HashFiles \/ VerifyManifest \/ SaveManifest \/ LoadManifest

SpecHash == InitHash /\ [][NextHash]_vars

(***************************************************************************)
(* filter_by_paths (src/diff/mod.rs) as a computation of its own: a list   *)
(* of entries and a list of filter texts drawn from the sets below.        *)
(***************************************************************************)
\* s begins with the text t
HasTextPrefix(s, t) == Len(s) >= Len(t) /\ SubSeq(s, 1, Len(t)) = t

\* shellexpand::tilde: a leading "~" alone or before "/" becomes the home
\* directory
tilde(s) ==
    IF s = "~" \/ HasTextPrefix(s, "~/") THEN Display(HomeDir) \o SubSeq(s, 2, Len(s)) ELSE s

\* one filter text, expanded and made relative to home
normalized_filter(p) ==
    LET expanded == tilde(p)
        path == PathBuf_from(expanded)
    IN  IF IsAbsolute(path)
        THEN (IF strip_prefix(path, HomeDir) # None THEN strip_prefix(path, HomeDir)[1]
              ELSE path)
        ELSE (IF strip_prefix(path, PathBuf_from("~/")) # None
              THEN strip_prefix(path, PathBuf_from("~/"))[1]
              ELSE path)

\* filter_by_paths with the filters left as written after tilde expansion
filter_by_paths_NoHomeStrip(es, filter_paths) ==
    IF filter_paths = <<>> THEN es
    ELSE LET normalized_filters ==
                 [i \in 1..Len(filter_paths) |-> PathBuf_from(tilde(filter_paths[i]))]
             Keep(entry) ==
                 \E i \in 1..Len(normalized_filters) :
                     \/ StartsWith(entry.rel_path, normalized_filters[i])
                     \/ entry.rel_path = normalized_filters[i]
         IN  SelectSeq(es, Keep)

filter_by_paths(es, filter_paths) ==
    IF filter_paths = <<>> THEN es
    ELSE LET normalized_filters ==
                 [i \in 1..Len(filter_paths) |-> normalized_filter(filter_paths[i])]
             Keep(entry) ==
                 \E i \in 1..Len(normalized_filters) :
                     \/ StartsWith(entry.rel_path, normalized_filters[i])
                     \/ entry.rel_path = normalized_filters[i]
         IN  SelectSeq(es, Keep)

\* longest list of entries and of filters
MaxFilterEntries == 2
MaxFilters == 2

\* a path two components deep
NestedPath == << <<"d">>, <<"rc">> >>

FilterRelPaths == RelPaths \cup {NestedPath}

\* the filter texts: shorthand and absolute forms of a file and a directory,
\* home itself, a name that is the beginning of another, paths outside home
FilterTexts ==
    {"rc", "~/rc", "/home/rc", "~/d", "/home/d/", "d/rc", "~", "", "r", "/etc", "..",
     "~/../x", "/homer/rc", "./rc"}

EntryOf(rel, st) == DiffEntry(rel, Join(CompiledRoot, rel), Join(HomeDir, rel), st)

EntryLists ==
    UNION {[1..n -> {EntryOf(rel, "Modified") : rel \in FilterRelPaths}] :
              n \in 0..MaxFilterEntries}

FilterLists == UNION {[1..n -> FilterTexts] : n \in 0..MaxFilters}

InitFilter ==
    /\ entries \in EntryLists
    /\ only \in FilterLists
    /\ filtered = NotRun
    /\ manifest = EmptyManifest
    /\ cfg = [general |-> [default_mode |-> "Symlink", backup |-> TRUE],
              files |-> [k \in {} |-> FileOverride(None, FALSE)]]
    /\ opts = [force |-> FALSE, allow_outside_home |-> FALSE]
    /\ fs = EmptyTree
    /\ pc = "idle"
    /\ order = <<>> /\ actions = <<>> /\ log = <<>> /\ temps = 0 /\ pass = 0 /\ prev = NoPrev
    /\ DiffIdle /\ CmdIdle /\ HashIdle /\ DaemonIdle

\* diff::filter_by_paths(entries, &paths)
FilterByPaths ==
    /\ ~filtered.ran
    /\ filtered' = [ran |-> TRUE, value |-> filter_by_paths(entries, only)]
    /\ UNCHANGED only
    /\ UNCHANGED <<applyVars, diffVars, cmdVars, hashVars, daemonVars>>

SpecFilter == InitFilter /\ [][FilterByPaths]_vars

(***************************************************************************)
(* daemon start (src/daemon/mod.rs): several processes run start at once   *)
(* over one dotdipper directory; each step below is one access to the PID  *)
(* file or to the process table.                                           *)
(***************************************************************************)
\* processes that run daemon::start; the process id of the n-th is n
MaxDaemons == 2
Procs == 1..MaxDaemons

\* a live process that is not a dotdipper daemon, and an id no process has
OtherPid == 7
DeadPid == 9

\* current_pid.to_string() and pid_str.trim().parse::<i32>()
pid_to_string(n) == [digits |-> TRUE, value |-> n]
NotANumber == [digits |-> FALSE, value |-> 0]
parse_pid(text) == IF text.digits THEN Some(text.value) ELSE None

\* the places of start where the process is alive
Alive == {"start", "stale", "checked", "ready", "loop"}

\* sys.process(Pid::from(pid)).is_some()
is_process_running(ds, pid) == pid = OtherPid \/ (pid \in DOMAIN ds /\ ds[pid] \in Alive)

\* config.daemon: absent, or present with enabled set or not
DaemonConfigs == {None, Some([enabled |-> TRUE]), Some([enabled |-> FALSE])}

InitDaemon ==
    /\ pid_file \in {None, Some(NotANumber), Some(pid_to_string(DeadPid)),
                      Some(pid_to_string(OtherPid))}
    /\ daemons = [p \in Procs |-> "start"]
    /\ \E d \in DaemonConfigs :
          cfg = [general |-> [default_mode |-> "Symlink", backup |-> TRUE],
                 files |-> [k \in {} |-> FileOverride(None, FALSE)], daemon |-> d]
    /\ tracked \in {<<>>, <<TargetOf(PlainPath)>>}
    /\ manifest = EmptyManifest
    /\ opts = [force |-> FALSE, allow_outside_home |-> FALSE]
    /\ fs = EmptyTree
    /\ pc = "idle"
    /\ hooks = None /\ command = "none" /\ lock = None
    /\ ApplyIdle /\ DiffIdle /\ HashIdle /\ FilterIdle

\* start, the check of the PID file: no file or no number in it goes on, a
\* live process bails, a dead one makes the file stale
DaemonCheck ==
    /\ \E p \in Procs :
          /\ daemons[p] = "start"
          /\ daemons' =
                [daemons EXCEPT ![p] =
                    IF pid_file = None \/ parse_pid(pid_file[1]) = None THEN "checked"
                    ELSE IF is_process_running(daemons, parse_pid(pid_file[1])[1])
                    THEN "refused"
                    ELSE "stale"]
    /\ UNCHANGED pid_file
    /\ UNCHANGED <<applyVars, diffVars, cmdVars, hashVars, filterVars>>

\* fs::remove_file(&pid_file)? of the stale file
DaemonRemoveStale ==
    /\ \E p \in Procs :
          /\ daemons[p] = "stale"
          /\ daemons' = [daemons EXCEPT ![p] = IF pid_file = None THEN "failed" ELSE "checked"]
    /\ pid_file' = None
    /\ UNCHANGED <<applyVars, diffVars, cmdVars, hashVars, filterVars>>

\* the checks of the configuration: daemon section, enabled, tracked files
DaemonConfigured ==
    /\ \E p \in Procs :
          /\ daemons[p] = "checked"
          /\ daemons' =
                [daemons EXCEPT ![p] =
                    IF cfg.daemon = None \/ ~cfg.daemon[1].enabled \/ tracked = <<>>
                    THEN "failed"
                    ELSE "ready"]
    /\ UNCHANGED pid_file
    /\ UNCHANGED <<applyVars, diffVars, cmdVars, hashVars, filterVars>>

\* fs::write(&pid_file, current_pid.to_string())?, then the loop is entered
DaemonWritePid ==
    /\ \E p \in Procs, written \in BOOLEAN :
          /\ daemons[p] = "ready"
          /\ daemons' = [daemons EXCEPT ![p] = IF written THEN "loop" ELSE "failed"]
          /\ pid_file' = IF written THEN Some(pid_to_string(p)) ELSE pid_file
    /\ UNCHANGED <<applyVars, diffVars, cmdVars, hashVars, filterVars>>

\* run_daemon_loop returns Ok or Err; the PID file is removed in both cases
DaemonLoopEnds ==
    /\ \E p \in Procs, result \in {"stopped", "failed"} :
          /\ daemons[p] = "loop"
          /\ daemons' = [daemons EXCEPT ![p] = result]
    /\ pid_file' = None
    /\ UNCHANGED <<applyVars, diffVars, cmdVars, hashVars, filterVars>>

\* the process in the loop is ended by a signal, as daemon stop sends it
DaemonKilled ==
    /\ \E p \in Procs :
          /\ daemons[p] = "loop"
          /\ daemons' = [daemons EXCEPT ![p] = "killed"]
    /\ UNCHANGED pid_file
    /\ UNCHANGED <<applyVars, diffVars, cmdVars, hashVars, filterVars>>

NextDaemon ==
    \/ DaemonCheck \/ DaemonRemoveStale \/ DaemonConfigured \/ DaemonWritePid
    \/ DaemonLoopEnds \/ DaemonKilled

SpecDaemon == InitDaemon /\ [][NextDaemon]_vars

(***************************************************************************)
(* Properties.                                                             *)
(***************************************************************************)
Range(q) == {q[i] : i \in 1..Len(q)}

\* the outcome reports the entry as applied: linked or copied, now or before
Applied(a) == a.mode \in {"Symlinked", "Copied"}

\* the events of this pass that changed the target tree for entry i
TreeMutations(i) ==
    {k \in 1..Len(log) :
        log[k].entry = i /\ log[k].op \in {"backup", "remove", "symlink", "copy"}}

\* C1: when a pass that returned Ok is followed by a second pass over the
\* same manifest, compiled root, config and options, every entry the first
\* pass linked or copied is reported "Already applied" by the second, and
\* the second changes nothing in the tree for it.
C1_SecondPassAlreadyApplied ==
    (pc = "done" /\ prev.ran) =>
        \A i \in 1..Len(prev.actions), j \in 1..Len(actions) :
            (order[j] = prev.order[i] /\ Applied(prev.actions[i])) =>
                /\ actions[j].skipped_reason = Some("Already applied")
                /\ TreeMutations(j) = {}

\* the target of the entry lies outside the target root once ".." is resolved
ResolvesOutside(rel) == ~StartsWith(TargetLoc(rel), HomeDir)

\* C2: without allow_outside_home an entry whose target resolves outside the
\* target root is skipped as "Outside $HOME" and nothing is written for it
\* (an entry without a source may be skipped as "Source not found": the
\* source check comes first in the specified order of checks).
C2_OutsideRootSkipped ==
    \A i \in 1..Len(actions) :
        (~opts.allow_outside_home /\ ResolvesOutside(order[i])) =>
            /\ actions[i].mode = "Skipped"
            /\ \/ actions[i].skipped_reason = Some("Outside $HOME")
               \/ /\ actions[i].skipped_reason = Some("Source not found")
                  /\ ~exists(fs, Join(CompiledRoot, order[i]))
            /\ TreeMutations(i) = {}

\* C3: when apply has returned, the target of every entry reported Symlinked
\* is a symbolic link whose value is compiled_root/p and names an existing
\* file.
C3_SymlinkPointsAtCompiled ==
    pc = "done" =>
        \A i \in 1..Len(actions) :
            actions[i].mode = "Symlinked" =>
                /\ is_symlink(fs, actions[i].target)
                /\ read_link(fs, actions[i].target) = Join(CompiledRoot, order[i])
                /\ exists(fs, read_link(fs, actions[i].target))

\* C4: when apply has returned, the target of every entry reported Copied has
\* the content hash the manifest stores for the entry.
C4_CopyHasManifestHash ==
    pc = "done" =>
        \A i \in 1..Len(actions) :
            actions[i].mode = "Copied" =>
                hash_file(fs, actions[i].target, FALSE) =
                    [ok |-> TRUE, hash |-> manifest[order[i]].hash]

\* C5: diff gives Missing to a target that does not exist, Identical to a
\* symbolic link whose value is compiled_root/p, Identical to a regular file
\* with the manifest's hash and Modified to a regular file with another hash.
C5_DiffClassification ==
    \A k \in 1..Len(entries) :
        LET e == entries[k]
            t == LStat(fs, e.target_path)
        IN  /\ t.kind = "absent" => e.status = "Missing"
            /\ (t.kind = "symlink" /\ t.link = Join(CompiledRoot, e.rel_path))
                   => e.status = "Identical"
            /\ (t.kind = "file" /\ Blake3(t.content) = manifest[e.rel_path].hash)
                   => e.status = "Identical"
            /\ (t.kind = "file" /\ Blake3(t.content) # manifest[e.rel_path].hash)
                   => e.status = "Modified"

\* C6: a diff run right after a forced apply pass that returned Ok gives
\* Identical to every entry the pass reported Symlinked or Copied.
C6_DiffAfterApplyIdentical ==
    (pc = "done" /\ opts.force /\ entries # <<>>) =>
        \A i \in 1..Len(actions), k \in 1..Len(entries) :
            (entries[k].rel_path = order[i] /\ Applied(actions[i])) =>
                entries[k].status = "Identical"

\* C9: apply goes through the entries in path order, and a second pass goes
\* through them in the order of the first.
C9_PathOrder ==
    pc = "done" =>
        /\ order = SortedPaths(DOMAIN manifest)
        /\ prev.ran => order = prev.order

\* the events of this pass logged for entry i, after the step
EventsOf(i, op, ok) ==
    {k \in 1..Len(log') : log'[k].entry = i /\ log'[k].op = op /\ log'[k].ok = ok}

\* one iteration of the loop has run: it recorded an outcome or it failed
EntryStep == pc = "applying" /\ (pc' = "error" \/ Len(actions') = Len(actions) + 1)

\* the entry of the step met one of the skip cases, and what the step did
SkipsAreOutcomes ==
    EntryStep =>
        LET i == Len(actions) + 1
            rel == order[i]
            ov == file_override(cfg, rel)
            source_missing == ~exists(fs, Join(CompiledRoot, rel))
            decryption_failed == EventsOf(i, "decrypt", FALSE) # {}
            user_declined == EventsOf(i, "prompt", FALSE) # {}
            outside_home == ~opts.allow_outside_home /\ ~StartsWith(TargetOf(rel), HomeDir)
            excluded == ov # None /\ ov[1].exclude
            skipped == /\ pc' = "applying"
                       /\ actions'[i].mode = "Skipped"
                       /\ actions'[i].skipped_reason # None
            temp_failed == /\ pc' = "error"
                           /\ IsEncryptedPath(rel)
                           /\ \A k \in 1..Len(log') :
                                  log'[k].entry = i => log'[k].op = "decrypt"
        IN  /\ (source_missing \/ decryption_failed \/ user_declined) => skipped
            /\ (outside_home \/ excluded) => (skipped \/ temp_failed)

\* the list apply returns has one outcome per manifest entry
OneOutcomePerEntry ==
    pc' = "done" =>
        /\ Len(actions') = Cardinality(DOMAIN manifest)
        /\ Range(order') = DOMAIN manifest
        /\ \A i \in 1..Len(actions') :
              actions'[i].target \in {TargetOf(order'[i]), Join(HomeDir, order'[i])}

C8_FatalAbortsWithoutRollback ==
    pc = "error" =>
        /\ Len(actions) < Len(order)
        /\ \A k \in 1..Len(log) : log[k].entry <= Len(actions) + 1
        /\ \A i \in 1..Len(actions) :
              Applied(actions[i]) =>
                /\ actions[i].mode = "Symlinked" =>
                       /\ is_symlink(fs, actions[i].target)
                       /\ read_link(fs, actions[i].target) = actions[i].source
                /\ actions[i].mode = "Copied" =>
                       LStat(fs, actions[i].target).kind \in {"file", "dir"}
                /\ \A k \in 1..Len(log) :
                       (log[k].entry > i /\ log[k].op \in {"remove", "symlink", "copy"})
                           => log[k].path # Normalize(actions[i].target)

\* C10: old.diff(new) lists as added the paths only new has, as deleted the
\* paths only old has, as modified the paths of both whose hashes differ,
\* each path once; the lists are pairwise disjoint, the diff of a manifest
\* with itself is empty, and size, mode and modification time play no part.
C10_ManifestDiffSets ==
    mdiff.computed =>
        /\ Range(mdiff.added) = DOMAIN mNew \ DOMAIN mOld
        /\ Range(mdiff.deleted) = DOMAIN mOld \ DOMAIN mNew
        /\ Range(mdiff.modified) =
               {p \in DOMAIN mOld \cap DOMAIN mNew : mOld[p].hash # mNew[p].hash}
        /\ Len(mdiff.added) = Cardinality(Range(mdiff.added))
        /\ Len(mdiff.deleted) = Cardinality(Range(mdiff.deleted))
        /\ Len(mdiff.modified) = Cardinality(Range(mdiff.modified))
        /\ Range(mdiff.added) \cap Range(mdiff.deleted) = {}
        /\ Range(mdiff.added) \cap Range(mdiff.modified) = {}
        /\ Range(mdiff.deleted) \cap Range(mdiff.modified) = {}
        /\ mOld = mNew => (mdiff.added = <<>> /\ mdiff.deleted = <<>> /\ mdiff.modified = <<>>)

\* a diff with a path added and a path modified, next to a path that kept
\* its hash while its size changed
C10_MetadataOnlyChange ==
    /\ mdiff.computed
    /\ mdiff.added # <<>>
    /\ mdiff.modified # <<>>
    /\ \E p \in DOMAIN mOld \cap DOMAIN mNew :
           mOld[p].hash = mNew[p].hash /\ mOld[p].size # mNew[p].size

\* the hook events of the log after the step, and those that did not exit with 0
HookEventsAfter == {k \in 1..Len(log') : log'[k].op \in {"pre", "post"}}
HookFailedAfter(kind) ==
    \E k \in HookEventsAfter : log'[k].op = kind /\ log'[k].outcome # "exit0"

\* what every step of a command with hooks does
HooksAreFatal ==
    \* hooks run in list order, the pre hooks before anything else
    /\ \A k \in HookEventsAfter :
          /\ log'[k].hook = (IF log'[k].op = "pre" THEN HooksOf("pre") ELSE HooksOf("post"))
                                 [log'[k].entry]
          /\ \A j \in 1..(k - 1) :
                /\ (log'[k].op = "pre" => log'[j].op = "pre")
                /\ (log'[j].op = log'[k].op => log'[j].entry < log'[k].entry)
    \* a hook that fails is the last thing the command does, and the command fails
    /\ \A k \in HookEventsAfter :
          log'[k].outcome # "exit0" => (k = Len(log') /\ pc' = "failed")
    \* the tree and the manifest file change only once every pre hook has
    \* exited with 0
    /\ (fs' # fs \/ lock' # lock) =>
          /\ HooksRun("pre") = Len(HooksOf("pre"))
          /\ ~HookFailedAfter("pre")
    \* after a failed pre hook the tree and the manifest file are as the
    \* command found them: nothing but pre hooks has happened
    /\ HookFailedAfter("pre") => \A k \in 1..Len(log') : log'[k].op = "pre"
    \* the command succeeds only when no hook failed
    /\ pc' = "ok" => ~HookFailedAfter("pre") /\ ~HookFailedAfter("post")

\* C11: hooks run in list order; a pre hook that exits non-zero fails the
\* command, no later hook runs and the enclosed apply or snapshot changes
\* neither the tree nor the manifest file; a failing post hook fails the
\* command as well.
C11_HookFailureIsFatal == [][HooksAreFatal]_vars

\* the second pre-snapshot hook failed where the snapshot had files to copy
C11_SecondPreHookFailed ==
    /\ command = "snapshot"
    /\ pc = "failed"
    /\ Len(log) = 2
    /\ log[1].op = "pre" /\ log[1].outcome = "exit0"
    /\ log[2].op = "pre" /\ log[2].outcome = "exit1"
    /\ hash_files(fs, tracked) # <<>>
    /\ lock = None

\* C12: when apply has returned, every encrypted entry it linked or copied
\* in this pass has its target at target_root/p without the suffix, and
\* reading that target gives the decrypted plaintext.
C12_EncryptedTargetReadable ==
    pc = "done" =>
        \A i \in 1..Len(actions) :
            (IsEncryptedPath(order[i]) /\ Applied(actions[i])
                /\ actions[i].skipped_reason = None) =>
                /\ actions[i].target = TargetOf(order[i])
                /\ is_file(fs, actions[i].target)
                /\ Stat(fs, actions[i].target).content =
                       decrypt_to_memory(fs, Join(CompiledRoot, order[i]), TRUE).bytes

\* the filter text without its home shorthand: "~/x" and "/home/x" are "x"
WithoutShorthand(t) ==
    IF t = "~" \/ t = Display(HomeDir) THEN ""
    ELSE IF HasTextPrefix(t, "~/") THEN SubSeq(t, 3, Len(t))
    ELSE IF HasTextPrefix(t, Display(HomeDir) \o "/")
    THEN SubSeq(t, Len(Display(HomeDir)) + 2, Len(t))
    ELSE t

\* the entry's relative path is the filter or lies below it, by components
MatchesFilter(e, t) == StartsWith(e.rel_path, PathBuf_from(WithoutShorthand(t)))

MatchesSome(e) == \E i \in 1..Len(only) : MatchesFilter(e, only[i])

\* C13: an empty filter list returns the entries unchanged; otherwise the
\* result is, in the original order, exactly the entries whose relative path
\* equals a filter or has it as a component-wise prefix, the filter taken
\* without its "~/" or absolute-home shorthand.
C13_FilterByPaths ==
    filtered.ran =>
        IF only = <<>> THEN filtered.value = entries
        ELSE filtered.value = SelectSeq(entries, MatchesSome)

\* an absolute-home filter kept the entry below it and dropped the other
C13_AbsoluteHomeFilter ==
    /\ filtered.ran
    /\ only = <<"/home/d/">>
    /\ Len(entries) = 2
    /\ entries[1].rel_path = PlainPath
    /\ entries[2].rel_path = NestedPath
    /\ filtered.value = <<entries[2]>>

\* the paths of the list that hold a regular file, in the order of the list
Hashable(p) == is_file(fs, p)

\* C15: hash_files returns Ok whatever the paths are, with one fingerprint,
\* in input order, for exactly the paths that can be fingerprinted; a path
\* that cannot is left out.
C15_HashFilesBestEffort ==
    hashes.ran =>
        /\ hashes.ok
        /\ Len(hashes.value) = Len(SelectSeq(tracked, Hashable))
        /\ \A j \in 1..Len(hashes.value) :
             /\ hashes.value[j].path = SelectSeq(tracked, Hashable)[j]
             /\ hashes.value[j].hash = Blake3(Stat(fs, hashes.value[j].path).content)

\* a directory first, a file second: one fingerprint, that of the file
C15_FailingPathOmitted ==
    /\ hashes.ran
    /\ tracked = <<OtherFile, TargetOf(PlainPath)>>
    /\ Stat(fs, OtherFile).kind = "dir"
    /\ Len(hashes.value) = 1
    /\ hashes.value[1].path = TargetOf(PlainPath)

\* the tracked paths whose file is missing, cannot be read, or has another
\* content than the one fingerprinted
InvalidPaths ==
    {k \in DOMAIN manifest :
        \/ ~is_file(fs, manifest[k].path)
        \/ Blake3(Stat(fs, manifest[k].path).content) # manifest[k].hash}

\* C14: verify_manifest returns Ok for every manifest, and the list it
\* returns holds exactly the tracked paths whose file is missing, unreadable
\* or of another hash than the stored one.
C14_VerifyReportsInvalid ==
    invalid.ran =>
        /\ invalid.ok
        /\ {invalid.value[i] : i \in 1..Len(invalid.value)} = InvalidPaths

\* C16: a non-empty manifest written by save to a file that takes the write
\* and read back by load is the same manifest: version, created, the paths,
\* and every field of every fingerprint.
C16_ManifestRoundTrip ==
    (loaded.ran /\ ~saved.unwritable /\ DOMAIN saving[1].files # {}) =>
        /\ saved.ok
        /\ loaded.ok
        /\ loaded.manifest.version = saving[1].version
        /\ loaded.manifest.created = saving[1].created
        /\ DOMAIN loaded.manifest.files = DOMAIN saving[1].files
        /\ \A k \in DOMAIN saving[1].files : loaded.manifest.files[k] = saving[1].files[k]

\* C17: diff gives Modified, never Missing, to a target that is a symbolic
\* link with another value than compiled_root/p, whether or not the link
\* leads to something.
C17_OtherSymlinkIsModified ==
    \A k \in 1..Len(entries) :
        LET e == entries[k]
            t == LStat(fs, Join(HomeDir, e.rel_path))
        IN  (t.kind = "symlink" /\ t.link # Join(CompiledRoot, e.rel_path))
                => e.status = "Modified"

\* C18: diff gives Modified to a target that exists, is not a symbolic link
\* and cannot be fingerprinted.
C18_HashFailureIsModified ==
    \A k \in 1..Len(entries) :
        LET e == entries[k]
            target_path == Join(HomeDir, e.rel_path)
        IN  (/\ exists(fs, target_path)
             /\ ~is_symlink(fs, target_path)
             /\ ~hash_file(fs, target_path, FALSE).ok)
                => e.status = "Modified"

\* the reasons of the checks that come before the idempotency check
EarlierSkips ==
    {Some("Source not found"), Some("Decryption failed"), Some("Outside $HOME"),
     Some("Excluded")}

\* the entry of the step reached the idempotency check, and the check said
\* "already applied" exactly when diff calls the entry Identical in the tree
\* the step started from
IdempotencyAgreesWithDiff ==
    (EntryStep /\ pc' = "applying") =>
        LET i == Len(actions) + 1
            rel == order[i]
        IN  actions'[i].skipped_reason \notin EarlierSkips =>
                (actions'[i].skipped_reason = Some("Already applied")
                    <=> diff_status(fs, rel, manifest[rel]) = "Identical")

\* C19: for every entry that reaches apply's idempotency check, the check
\* reports "Already applied" exactly when diff classifies the entry as
\* Identical: an Identical target is never rewritten, a Modified or Missing
\* one is never skipped as already applied.
C19_IdempotencyAgreesWithDiff == [][IdempotencyAgreesWithDiff]_vars

\* the entry of the step is skipped for the first check that fails, in the
\* order source, encryption, safety, exclusion
FirstFailingCheck ==
    (EntryStep /\ pc' = "applying") =>
        LET i == Len(actions) + 1
            rel == order[i]
            ov == file_override(cfg, rel)
            reason == actions'[i].skipped_reason
            source_missing == ~exists(fs, Join(CompiledRoot, rel))
            decryption_failed == EventsOf(i, "decrypt", FALSE) # {}
            outside_home == ~opts.allow_outside_home /\ ~StartsWith(TargetOf(rel), HomeDir)
            excluded == ov # None /\ ov[1].exclude
        IN  IF source_missing THEN reason = Some("Source not found")
            ELSE IF decryption_failed THEN reason = Some("Decryption failed")
            ELSE IF outside_home THEN reason = Some("Outside $HOME")
            ELSE IF excluded THEN reason = Some("Excluded")
            ELSE reason \notin EarlierSkips

\* C20: apply runs the checks of an entry in the order source, encryption,
\* safety, exclusion and records the reason of the first that fails; an
\* entry without a source is skipped with "Source not found" also when it is
\* excluded, outside home or encrypted.
C20_CheckOrder == [][FirstFailingCheck]_vars

\* C21: a temporary plaintext file made for an encrypted entry is gone when
\* the processing of the entry ends, whatever the outcome: applied, already
\* applied, skipped for safety or exclusion, declined, or a fatal error.
C21_PlaintextReleased ==
    \A n \in 1..temps : LStat(fs, TempPath(n)).kind = "absent"

\* the prompts of the step for entry i
PromptsOf(i) == EventsOf(i, "prompt", TRUE) \cup EventsOf(i, "prompt", FALSE)

\* the events of the step for entry i that change the tree outside the
\* temporary directory
TargetEventsOf(i) ==
    {k \in 1..Len(log') :
        log'[k].entry = i /\ log'[k].op \in {"backup", "remove", "symlink", "copy"}}

\* what the step did about a target in the way of its entry
ConflictHandled ==
    EntryStep =>
        LET i == Len(actions) + 1
            rel == order[i]
            conflict == exists(fs, TargetOf(rel)) \/ is_symlink(fs, TargetOf(rel))
            declined == EventsOf(i, "prompt", FALSE) # {}
            overwrites == /\ pc' = "applying"
                          /\ actions'[i].skipped_reason \notin
                                 EarlierSkips \cup {Some("Already applied")}
                          /\ conflict
        IN  /\ opts.force => PromptsOf(i) = {}
            /\ ~conflict => PromptsOf(i) = {}
            /\ (overwrites /\ ~opts.force) => Cardinality(PromptsOf(i)) = 1
            /\ (overwrites /\ opts.force) => actions'[i].skipped_reason = None
            /\ declined =>
                   /\ pc' = "applying"
                   /\ actions'[i].mode = "Skipped"
                   /\ actions'[i].skipped_reason = Some("User declined")
                   /\ ~actions'[i].backup_created
                   /\ TargetEventsOf(i) = {}
                   /\ fs' = fs

\* C22: when the target is in the way and the entry is not already applied,
\* apply goes on without a prompt with force set and prompts once with force
\* unset; a declined prompt gives Skipped("User declined") with
\* backup_created false and leaves the tree as it was.
C22_ConflictHandling == [][ConflictHandled]_vars

\* the user declined to overwrite a regular file at the target, and the file
\* is still there
C22_DeclinedKeepsTarget ==
    /\ pc = "done"
    /\ ~opts.force
    /\ Len(actions) = 1
    /\ order[1] = PlainPath
    /\ actions[1].skipped_reason = Some("User declined")
    /\ \E k \in 1..Len(log) : log[k].op = "prompt" /\ ~log[k].ok
    /\ LStat(fs, TargetOf(PlainPath)) = File(C2)

\* the events of the step for entry i with this operation, by position
StepEvents(i, op) == {k \in 1..Len(log') : log'[k].entry = i /\ log'[k].op = op}

\* the step removed a target only after backing it up, where a backup is due
BackupBeforeRemoval ==
    EntryStep =>
        LET i == Len(actions) + 1
            target == TargetOf(order[i])
            t == LStat(fs, target)
            removes == StepEvents(i, "remove")
            backups == StepEvents(i, "backup")
            due == cfg.general.backup /\ t.kind \in {"file", "dir"}
        IN  /\ (removes # {} /\ due) =>
                   /\ \E b \in backups :
                         /\ \A r \in removes : b < r
                         /\ log'[b].path # Normalize(target)
                         /\ Parent(log'[b].path) = Parent(Normalize(target))
                         /\ NodeAt(fs', log'[b].path) = t
                   /\ pc' = "applying" => actions'[i].backup_created
            /\ ~due =>
                   /\ backups = {}
                   /\ pc' = "applying" => ~actions'[i].backup_created
            /\ (pc' = "applying" /\ actions'[i].backup_created) => backups # {}

\* C23: a target that is not a symbolic link is removed, with backup enabled,
\* only after a copy of it was written to a sibling path, and the outcome
\* then has backup_created true; for a symbolic link, with backup disabled or
\* without a target no backup is written and backup_created is false.
C23_BackupBeforeRemoval == [][BackupBeforeRemoval]_vars

\* a regular file at the target was replaced and its copy is at the backup
\* path
C23_BackupWritten ==
    /\ pc = "done"
    /\ cfg.general.backup
    /\ Len(actions) = 1
    /\ order[1] = PlainPath
    /\ actions[1].backup_created
    /\ actions[1].skipped_reason = None
    /\ NodeAt(fs, BackupPath(TargetOf(PlainPath), pass)) = File(C2)
    /\ LStat(fs, TargetOf(PlainPath)) # File(C2)

\* C24: in one pass no two entries of the manifest have the same target
\* path, and no target path is linked or copied to twice.
C24_OneTargetPerEntry ==
    /\ \A i, j \in 1..Len(actions) : actions[i].target = actions[j].target => i = j
    /\ \A k, l \in 1..Len(log) :
          (/\ log[k].op \in {"symlink", "copy"}
           /\ log[l].op \in {"symlink", "copy"}
           /\ log[k].path = log[l].path) => log[k].entry = log[l].entry

\* the override of the entry under its home-relative path says exclude
ExcludedByConfig(rel) ==
    /\ ("~/" \o Display(rel)) \in DOMAIN cfg.files
    /\ cfg.files["~/" \o Display(rel)].exclude

\* the step left every path outside the temporary directory as it was and
\* asked nothing
TargetsUntouched(i) ==
    /\ TargetEventsOf(i) = {}
    /\ PromptsOf(i) = {}
    /\ \A loc \in DOMAIN fs \cup DOMAIN fs' :
          ~StartsWith(loc, TempDir) => NodeAt(fs', loc) = NodeAt(fs, loc)

\* the outcome of the step is Skipped("Excluded")
SkippedAsExcluded(i) ==
    /\ pc' = "applying"
    /\ actions'[i].mode = "Skipped"
    /\ actions'[i].skipped_reason = Some("Excluded")
    /\ ~actions'[i].backup_created

\* the outcome of every excluded entry is Skipped("Excluded")
ExcludedAlwaysSkipped ==
    (EntryStep /\ ExcludedByConfig(order[Len(actions) + 1])) =>
        /\ pc' = "applying" => SkippedAsExcluded(Len(actions) + 1)
        /\ TargetsUntouched(Len(actions) + 1)

\* an excluded entry that gets as far as the exclusion check is skipped as
\* excluded, and no excluded entry has its target touched
ExcludedSkippedAtCheck ==
    (EntryStep /\ ExcludedByConfig(order[Len(actions) + 1])) =>
        LET i == Len(actions) + 1
            rel == order[i]
            decryption_failed == EventsOf(i, "decrypt", FALSE) # {}
            outside_home == ~opts.allow_outside_home /\ ~StartsWith(TargetOf(rel), HomeDir)
            temp_failed == /\ pc' = "error"
                           /\ IsEncryptedPath(rel)
                           /\ \A k \in 1..Len(log') :
                                  log'[k].entry = i => log'[k].op = "decrypt"
        IN  /\ TargetsUntouched(i)
            /\ (~decryption_failed /\ ~outside_home /\ ~temp_failed) => SkippedAsExcluded(i)
            /\ decryption_failed =>
                   pc' = "applying" /\ actions'[i].skipped_reason = Some("Decryption failed")
            /\ (~decryption_failed /\ ~temp_failed /\ outside_home) =>
                   pc' = "applying" /\ actions'[i].skipped_reason = Some("Outside $HOME")

\* C25 as stated: an entry whose override under its home-relative path sets
\* exclude gets Skipped("Excluded"), and nothing at its target is created,
\* removed, backed up or rewritten, whatever force and the default mode are.
C25_ExcludedAlwaysSkipped == [][ExcludedAlwaysSkipped]_vars

\* C25 amended: an excluded entry that is not stopped before the exclusion
\* check (decryption failed, temporary file not created, target outside
\* home) gets Skipped("Excluded"); no excluded entry has anything created,
\* removed, backed up or rewritten at its target, whatever force and the
\* default mode are.
C25_ExclusionCheck == [][ExcludedSkippedAtCheck]_vars

\* an excluded entry with force set and a differing target: skipped, the
\* target still there
C25_ExcludedWithForce ==
    /\ pc = "done"
    /\ opts.force
    /\ Len(actions) = 1
    /\ order[1] = PlainPath
    /\ ExcludedByConfig(PlainPath)
    /\ actions[1].skipped_reason = Some("Excluded")
    /\ is_file(fs, SourceLoc(PlainPath))
    /\ LStat(fs, TargetOf(PlainPath)) = File(C2)

\* the mode the configuration gives the entry: that of its override when
\* the override has one, the default otherwise
ResolvedMode(rel) ==
    IF /\ ("~/" \o Display(rel)) \in DOMAIN cfg.files
       /\ cfg.files["~/" \o Display(rel)].mode # None
    THEN cfg.files["~/" \o Display(rel)].mode[1]
    ELSE cfg.general.default_mode

\* the outcome of the step reports the resolved mode, and an entry that was
\* applied has a link or a copy at its target accordingly
ModeIsResolved ==
    (EntryStep /\ pc' = "applying") =>
        LET i == Len(actions) + 1
            a == actions'[i]
            resolved == ResolvedMode(order[i])
        IN  /\ a.mode \in {"Symlinked", "Copied"} =>
                   (a.mode = "Symlinked" <=> resolved = "Symlink")
            /\ (a.mode # "Skipped" /\ a.skipped_reason = None) =>
                   /\ a.mode = "Symlinked" <=> resolved = "Symlink"
                   /\ a.mode = "Copied" <=> resolved = "Copy"
                   /\ resolved = "Symlink" <=> StepEvents(i, "symlink") # {}
                   /\ resolved = "Copy" <=> StepEvents(i, "copy") # {}
                   /\ resolved = "Symlink" <=> LStat(fs', a.target).kind = "symlink"

\* C26: apply uses for an entry the mode of its per-path override when the
\* override has a mode and the default mode otherwise; an applied entry is
\* reported Symlinked exactly when that mode is Symlink and Copied exactly
\* when it is Copy.
C26_ModeResolution == [][ModeIsResolved]_vars

\* the default is Symlink, the override of the entry says Copy: copied
C26_OverrideWins ==
    /\ pc = "done"
    /\ cfg.general.default_mode = "Symlink"
    /\ Len(actions) = 1
    /\ order[1] = PlainPath
    /\ ResolvedMode(PlainPath) = "Copy"
    /\ actions[1].mode = "Copied"
    /\ actions[1].skipped_reason = None
    /\ LStat(fs, TargetOf(PlainPath)) = File(C1)

\* C27: diff returns one entry per manifest path, in the order of the
\* relative paths, each with source compiled_root/p and target home/p, and
\* never with status New.
C27_DiffShape ==
    entries # <<>> =>
        /\ Len(entries) = Cardinality(DOMAIN manifest)
        /\ {entries[k].rel_path : k \in 1..Len(entries)} = DOMAIN manifest
        /\ \A k, l \in 1..Len(entries) :
              k < l => PathLess(entries[k].rel_path, entries[l].rel_path)
        /\ \A k \in 1..Len(entries) :
              /\ entries[k].source_path = Join(CompiledRoot, entries[k].rel_path)
              /\ entries[k].target_path = Join(HomeDir, entries[k].rel_path)
              /\ entries[k].status \in {"Modified", "Missing", "Identical"}

\* a diff of two entries: the plain path before its encrypted twin
C27_TwoEntriesInOrder ==
    /\ Len(entries) = 2
    /\ entries[1].rel_path = PlainPath
    /\ entries[2].rel_path = EncryptedPath
    /\ entries[1].status = "Modified"

\* repo::snapshot runs in this step
SnapshotStep == pc = "pre" /\ command = "snapshot" /\ pass' = pass + 1

\* the manifest file holds, for the tracked file, the hash of its content
StoredUnchanged(file) ==
    LET files == load(lock).manifest.files
    IN  /\ is_file(fs, file)
        /\ RelToHome(file) \in DOMAIN files
        /\ files[RelToHome(file)].hash = Blake3(Stat(fs, file).content)

\* without force, with a manifest and every tracked file as it is stored,
\* the step rewrites nothing
SnapshotSkipsUnchanged ==
    (/\ SnapshotStep
     /\ ~opts.force
     /\ lock # None
     /\ \A i \in 1..Len(tracked) : StoredUnchanged(tracked[i])) =>
        /\ fs' = fs
        /\ lock' = lock
        /\ \A k \in 1..Len(log') : log'[k].op \notin {"copy", "save"}

\* C28: repo::snapshot called without force, when a manifest exists and every
\* tracked file exists with the content hash stored for it, returns without
\* rewriting the manifest or the compiled copies.
C28_SnapshotSkipsUnchanged == [][SnapshotSkipsUnchanged]_vars

\* the step left alone what the symbolic link at its target names
ReferentUntouched ==
    (EntryStep /\ is_symlink(fs, TargetOf(order[Len(actions) + 1]))) =>
        LET i == Len(actions) + 1
            target == TargetOf(order[i])
            referent == Normalize(read_link(fs, target))
        IN  /\ NodeAt(fs', referent) = NodeAt(fs, referent)
            /\ \A k \in 1..Len(log') :
                  (log'[k].entry = i /\ log'[k].path = referent) =>
                      log'[k].op \notin {"remove", "copy", "symlink", "backup"}
            /\ \A k \in StepEvents(i, "remove") : log'[k].path = Normalize(target)
            /\ StepEvents(i, "backup") = {}

\* C29: when apply overwrites a target that is a symbolic link it removes
\* the link itself; what the link names is not deleted, truncated or
\* rewritten by the processing of the entry, in Symlink and in Copy mode.
C29_LinkReplacedNotFollowed == [][ReferentUntouched]_vars

\* a link to a file elsewhere was replaced by a copy, backup enabled: the
\* file elsewhere is as it was
C29_LinkReplacedByCopy ==
    /\ pc = "done"
    /\ cfg.general.backup
    /\ Len(actions) = 1
    /\ order[1] = PlainPath
    /\ actions[1].mode = "Copied"
    /\ actions[1].skipped_reason = None
    /\ ~actions[1].backup_created
    /\ \E k \in 1..Len(log) : log[k].op = "remove" /\ log[k].path = TargetOf(PlainPath)
    /\ LStat(fs, TargetOf(PlainPath)) = File(C1)
    /\ NodeAt(fs, OtherFile) = File(C2)

\* the processes in the watch loop
InLoop(ds) == {p \in Procs : ds[p] = "loop"}

\* what a step of start keeps true of the daemons of one directory
OneDaemon ==
    /\ Cardinality(InLoop(daemons')) <= 1
    /\ \A p \in Procs :
          (/\ daemons[p] = "start"
           /\ pid_file # None
           /\ parse_pid(pid_file[1]) # None
           /\ is_process_running(daemons, parse_pid(pid_file[1])[1])) =>
              daemons'[p] \in {"start", "refused"}
    /\ \A p \in Procs :
          (daemons[p] = "loop" /\ daemons'[p] \in {"stopped", "failed"}) => pid_file' = None

\* C30: start refuses to run when the PID file names a live process and
\* replaces a stale PID file; at most one process of a dotdipper directory
\* is in the watch loop at any time, also when two starts run at once; the
\* PID file is removed when the loop ends, with Ok or with an error.
C30_SingleDaemon == [][OneDaemon]_vars
====
